---- MODULE Spec2Model ----
(***************************************************************************)
(* stackgen: the artifact generation engine (internal/generator), the      *)
(* domain catalog (internal/models), the profile resolver                  *)
(* (internal/profiles) and the init / add commands (cmd).                  *)
(*                                                                         *)
(* Strings are TLA+ strings; Go's string functions are computed character  *)
(* by character.  A text document is the sequence of its lines.            *)
(***************************************************************************)
EXTENDS Integers, Sequences, FiniteSets, TLC

VARIABLES
    pc,          \* position of the modelled command / API client
    project,     \* the in-memory models.Project of the running command
    g,           \* the generator.Generator (project is g's project)
    out1,        \* the *GeneratedOutput returned by the first Generate
    out2,        \* the *GeneratedOutput returned by the second Generate
    randFailed,  \* a read of the random source failed during Generate
    configFile,  \* contents of stackgen.yaml (NoFile when absent)
    disk,        \* the artifacts in the output directory
    lastCmd,     \* the last command run: its arguments and its result
    selected,    \* selectDatastores / selectRuntimes: the slice `selected`
    selectedMap, \* selectDatastores / selectRuntimes: the map `selectedMap`
    toggles,     \* number of toggle selections made in the current prompt
    freedPorts,  \* the ports of the instances deleted from stackgen.yaml
    testModel    \* the testModel of the running stackgen test program

vars == <<pc, project, g, out1, out2, randFailed, configFile, disk, lastCmd,
          selected, selectedMap, toggles, freedPorts, testModel>>

----------------------------------------------------------------------------
(* Bounds of the model *)

\* most instances (datastores and runtimes together) of a Project that is
\* handed to the generator API and is not a built-in profile
MaxGenInstances == 2
\* most instances the add command is run up to
MaxAddInstances == 2
\* most instances deleted from stackgen.yaml by hand
MaxRemovals == 1
\* most toggles made in the menus of the init wizard
MaxToggles == 3

\* characters typed into the output directory field of the test wizard
MaxDirLen == 2

----------------------------------------------------------------------------
(* Go string functions *)

Char(s, i) == SubSeq(s, i, i)

\* strings.Index(s, sub) + 1, 0 when sub does not occur in s
RECURSIVE IndexFrom(_, _, _)
IndexFrom(s, sub, i) ==
    IF i + Len(sub) - 1 > Len(s) THEN 0
    ELSE IF SubSeq(s, i, i + Len(sub) - 1) = sub THEN i
    ELSE IndexFrom(s, sub, i + 1)

Index(s, sub) == IndexFrom(s, sub, 1)

\* strings.Contains
Contains(s, sub) ==
    \E i \in 1..(Len(s) - Len(sub) + 1) : SubSeq(s, i, i + Len(sub) - 1) = sub

HasPrefix(s, prefix) ==
    Len(s) >= Len(prefix) /\ SubSeq(s, 1, Len(prefix)) = prefix

\* strings.ReplaceAll for a one-character old string, from character i on
RECURSIVE ReplaceAllFrom(_, _, _, _)
ReplaceAllFrom(s, old, new, i) ==
    IF i > Len(s) THEN ""
    ELSE (IF Char(s, i) = old THEN new ELSE Char(s, i))
         \o ReplaceAllFrom(s, old, new, i + 1)

ReplaceAll(s, old, new) == ReplaceAllFrom(s, old, new, 1)

\* unicode.ToLower on the ASCII letters
LowerOf ==
    [A |-> "a", B |-> "b", C |-> "c", D |-> "d", E |-> "e", F |-> "f",
     G |-> "g", H |-> "h", I |-> "i", J |-> "j", K |-> "k", L |-> "l",
     M |-> "m", N |-> "n", O |-> "o", P |-> "p", Q |-> "q", R |-> "r",
     S |-> "s", T |-> "t", U |-> "u", V |-> "v", W |-> "w", X |-> "x",
     Y |-> "y", Z |-> "z"]

ToLowerChar(c) == IF c \in DOMAIN LowerOf THEN LowerOf[c] ELSE c

\* strings.ToLower, from character i on
RECURSIVE ToLowerFrom(_, _)
ToLowerFrom(s, i) ==
    IF i > Len(s) THEN ""
    ELSE ToLowerChar(Char(s, i)) \o ToLowerFrom(s, i + 1)

ToLower(s) == ToLowerFrom(s, 1)

\* fmt.Sprintf("%d", n)
Itoa(n) == ToString(n)

HexTable == "0123456789abcdef"

\* hex.EncodeToString
RECURSIVE EncodeToString(_)
EncodeToString(bytes) ==
    IF bytes = <<>> THEN ""
    ELSE Char(HexTable, (Head(bytes) \div 16) + 1)
         \o Char(HexTable, (Head(bytes) % 16) + 1)
         \o EncodeToString(Tail(bytes))

\* Go map assignment m[k] = v
Put(m, k, v) == [x \in (DOMAIN m) \cup {k} |-> IF x = k THEN v ELSE m[x]]

EmptyMap == [x \in {} |-> ""]

\* the element of a one-element set; The({F(x) : x \in {e}}) is F(e) with e
\* computed once
The(S) == CHOOSE x \in S : TRUE

RECURSIVE Flatten(_)
Flatten(ss) == IF ss = <<>> THEN <<>> ELSE Head(ss) \o Flatten(Tail(ss))

----------------------------------------------------------------------------
(* internal/models: the domain catalog *)

DatastorePostgres == "postgres"
DatastoreMySQL == "mysql"
DatastoreMSSQL == "mssql"
DatastoreNeo4j == "neo4j"
DatastoreRedis == "redis"
DatastoreRedisStack == "redis-stack"

RuntimeGo == "go"
RuntimeNode == "node"
RuntimePython == "python"
RuntimeJava == "java"
RuntimeRust == "rust"
RuntimeCSharp == "csharp"

AvailableDatastores ==
    <<DatastorePostgres, DatastoreMySQL, DatastoreMSSQL, DatastoreNeo4j,
      DatastoreRedis, DatastoreRedisStack>>

AvailableRuntimes ==
    <<RuntimeGo, RuntimeNode, RuntimePython, RuntimeJava, RuntimeRust,
      RuntimeCSharp>>

\* the map has no entry for redis-stack
GetDatastoreInfoNoRedisStack(t) ==
    CASE t = DatastorePostgres ->
           [Type |-> t, DisplayName |-> "PostgreSQL", DefaultPort |-> 5432,
            Edition |-> "Official Image"]
      [] t = DatastoreMySQL ->
           [Type |-> t, DisplayName |-> "MySQL", DefaultPort |-> 3306,
            Edition |-> "Official Image"]
      [] t = DatastoreMSSQL ->
           [Type |-> t, DisplayName |-> "SQL Server", DefaultPort |-> 1433,
            Edition |-> "Developer Edition - for development use only"]
      [] t = DatastoreNeo4j ->
           [Type |-> t, DisplayName |-> "Neo4j", DefaultPort |-> 7474,
            Edition |-> "Community Edition"]
      [] t = DatastoreRedis ->
           [Type |-> t, DisplayName |-> "Redis", DefaultPort |-> 6379,
            Edition |-> "Community"]
      [] OTHER ->
           [Type |-> "", DisplayName |-> "", DefaultPort |-> 0,
            Edition |-> ""]

\* a lookup outside the map returns the zero DatastoreInfo
GetDatastoreInfo(t) ==
    CASE t = DatastorePostgres ->
           [Type |-> t, DisplayName |-> "PostgreSQL", DefaultPort |-> 5432,
            Edition |-> "Official Image"]
      [] t = DatastoreMySQL ->
           [Type |-> t, DisplayName |-> "MySQL", DefaultPort |-> 3306,
            Edition |-> "Official Image"]
      [] t = DatastoreMSSQL ->
           [Type |-> t, DisplayName |-> "SQL Server", DefaultPort |-> 1433,
            Edition |-> "Developer Edition - for development use only"]
      [] t = DatastoreNeo4j ->
           [Type |-> t, DisplayName |-> "Neo4j", DefaultPort |-> 7474,
            Edition |-> "Community Edition"]
      [] t = DatastoreRedis ->
           [Type |-> t, DisplayName |-> "Redis", DefaultPort |-> 6379,
            Edition |-> "Community"]
      [] t = DatastoreRedisStack ->
           [Type |-> t, DisplayName |-> "Redis Stack", DefaultPort |-> 6379,
            Edition |-> "Community"]
      [] OTHER ->
           [Type |-> "", DisplayName |-> "", DefaultPort |-> 0,
            Edition |-> ""]

\* a lookup outside the map returns the zero RuntimeInfo (nil Frameworks)
GetRuntimeInfo(t) ==
    CASE t = RuntimeGo ->
           [Type |-> t, DisplayName |-> "Go", DefaultPort |-> 8080,
            Frameworks |-> <<"stdlib", "gin", "fiber", "echo">>]
      [] t = RuntimeNode ->
           [Type |-> t, DisplayName |-> "Node.js", DefaultPort |-> 3000,
            Frameworks |-> <<"express", "fastify", "nextjs", "nestjs">>]
      [] t = RuntimePython ->
           [Type |-> t, DisplayName |-> "Python", DefaultPort |-> 8000,
            Frameworks |-> <<"fastapi", "flask", "django">>]
      [] t = RuntimeJava ->
           [Type |-> t, DisplayName |-> "Java", DefaultPort |-> 8080,
            Frameworks |-> <<"spring-boot", "quarkus", "micronaut">>]
      [] t = RuntimeRust ->
           [Type |-> t, DisplayName |-> "Rust", DefaultPort |-> 8080,
            Frameworks |-> <<"actix-web", "axum", "rocket">>]
      [] t = RuntimeCSharp ->
           [Type |-> t, DisplayName |-> "C# / .NET", DefaultPort |-> 5000,
            Frameworks |-> <<"aspnetcore", "minimal-api">>]
      [] OTHER ->
           [Type |-> "", DisplayName |-> "", DefaultPort |-> 0,
            Frameworks |-> <<>>]

getDefaultTag(dsType) ==
    CASE dsType = DatastorePostgres -> "16-alpine"
      [] dsType = DatastoreMySQL -> "8.0"
      [] dsType = DatastoreMSSQL -> "2022-latest"
      [] dsType = DatastoreNeo4j -> "5"
      [] dsType = DatastoreRedis -> "7-alpine"
      [] dsType = DatastoreRedisStack -> "latest"
      [] OTHER -> ""

\* models.Datastore (the fields the commands and the generator use)
Datastore(type, name, port, internalPort, tag) ==
    [Type |-> type, Name |-> name, Port |-> port,
     InternalPort |-> internalPort, Tag |-> tag]

\* models.Runtime (the fields the commands and the generator use)
Runtime(type, name, framework, port, internalPort, dependsOn) ==
    [Type |-> type, Name |-> name, Framework |-> framework, Port |-> port,
     InternalPort |-> internalPort, BuildContext |-> name,
     Dockerfile |-> "Dockerfile", DependsOn |-> dependsOn]

\* models.Project
Project(name, outputDir, profile, datastores, runtimes) ==
    [Name |-> name, OutputDir |-> outputDir, Profile |-> profile,
     Datastores |-> datastores, Runtimes |-> runtimes]

\* the Secret flag of a variable is lost
EnvVarSecretLost(key, value, description, secret) ==
    [Key |-> key, Value |-> value, Description |-> description,
     Secret |-> FALSE]

\* models.EnvVar
EnvVar(key, value, description, secret) ==
    [Key |-> key, Value |-> value, Description |-> description,
     Secret |-> secret]

\* the zero models.ComposeService
ZeroService ==
    [Image |-> "", Build |-> <<>>, ContainerName |-> "", Ports |-> <<>>,
     Volumes |-> <<>>, Environment |-> EmptyMap, EnvFile |-> <<>>,
     DependsOn |-> <<>>, Networks |-> <<>>, HealthCheck |-> <<>>,
     Restart |-> "", Command |-> ""]

ComposeHealth(test, startPeriod) ==
    [Test |-> test, Interval |-> "10s", Timeout |-> "5s", Retries |-> 5,
     StartPeriod |-> startPeriod]

----------------------------------------------------------------------------
(* The process-wide random source (crypto/rand).  A generation consumes one *)
(* stream of the source: read k delivers bytes computed from the stream's   *)
(* seed, or fails (the buffer is left as make() zeroed it) when failAt = k. *)

RandStream(seed, step, failAt) ==
    [seed |-> seed, step |-> step, failAt |-> failAt]

RandStreams ==
    {RandStream(58, 71, 0), RandStream(197, 29, 0), RandStream(58, 71, 1),
     RandStream(197, 29, 2)}

\* rand.Read(b) with len(b) = n, the k-th read of the generation
randRead(stream, k, n) ==
    IF stream.failAt = k
    THEN [buf |-> [j \in 1..n |-> 0], err |-> TRUE]
    ELSE [buf |-> [j \in 1..n |->
                     (stream.seed + (16 * k + j) * stream.step) % 256],
          err |-> FALSE]

----------------------------------------------------------------------------
(* internal/templates (opaque build-recipe and ignore-list texts) *)

Dockerfile(kind, framework) == "FROM " \o kind \o " # " \o framework

GitIgnore == ".env"

----------------------------------------------------------------------------
(* internal/generator *)

\* generatePassword: the error of rand.Read is not looked at
generatePassword(length, stream, k) ==
    EncodeToString(randRead(stream, k, length \div 2).buf)

StrongChars ==
    "abcdefghijklmnopqrstuvwxyzABCDEFGHIJKLMNOPQRSTUVWXYZ0123456789!@#$%"

RECURSIVE StrongTail(_, _)
StrongTail(randBytes, i) ==
    IF i > Len(randBytes) THEN ""
    ELSE Char(StrongChars, (randBytes[i] % Len(StrongChars)) + 1)
         \o StrongTail(randBytes, i + 1)

\* every character is drawn, none of the four leading ones is set
generateStrongPasswordAllDrawn(length, stream, k) ==
    StrongTail(randRead(stream, k, length).buf, 1)

\* generateStrongPassword: the error of rand.Read is not looked at
generateStrongPassword(length, stream, k) ==
    "A" \o "a" \o "1" \o "!"
    \o StrongTail(randRead(stream, k, length - 4).buf, 1)

\* New
New(p) ==
    [project |-> p,
     compose |-> [Services |-> EmptyMap, Volumes |-> EmptyMap,
                  Networks |-> EmptyMap],
     envVars |-> <<>>,
     dockerfiles |-> EmptyMap]

\* the license acceptance and the edition are read from variables
MSSQLEnvironmentFromVariables ==
    [ACCEPT_EULA |-> "${ACCEPT_EULA:-Y}",
     MSSQL_SA_PASSWORD |-> "${MSSQL_SA_PASSWORD}",
     MSSQL_PID |-> "${MSSQL_PID:-Developer}"]

\* the Environment of the mssql case of generateDatastoreService
MSSQLEnvironment ==
    [ACCEPT_EULA |-> "Y",
     MSSQL_SA_PASSWORD |-> "${MSSQL_SA_PASSWORD}",
     MSSQL_PID |-> "Developer"]

\* the image reference is the repository and the tag alone
Neo4jImageTagOnly(tag) == "neo4j:" \o tag

\* the Image of the neo4j case of generateDatastoreService
Neo4jImage(tag) == "neo4j:" \o tag \o "-community"

\* number of rand.Read calls generateDatastoreService makes for a kind
ReadsOf(dsType) ==
    IF dsType \in {DatastoreMySQL, DatastoreMSSQL} THEN 2 ELSE 1

\* generateDatastoreService; k is the index of its first read of the random
\* source.  logs is the volume it declares itself in g.compose.Volumes.
generateDatastoreService(gen, ds, network, stream, k) ==
    LET volumeName == ds.Name \o "-data"
        name == gen.project.Name
        base == [ZeroService EXCEPT
                   !.ContainerName = name \o "-" \o ds.Name,
                   !.Networks = <<network>>,
                   !.Restart = "unless-stopped"]
        switch(password) ==
         CASE ds.Type = DatastorePostgres ->
         [service |-> [base EXCEPT
            !.Image = "postgres:" \o ds.Tag,
            !.Ports = <<Itoa(ds.Port) \o ":5432">>,
            !.Volumes = <<volumeName \o ":/var/lib/postgresql/data">>,
            !.Environment =
               [POSTGRES_USER |-> "${POSTGRES_USER:-postgres}",
                POSTGRES_PASSWORD |-> "${POSTGRES_PASSWORD}",
                POSTGRES_DB |-> "${POSTGRES_DB:-" \o name \o "}"],
            !.HealthCheck =
               ComposeHealth(<<"CMD-SHELL", "pg_isready -U postgres">>, "10s")],
          envs |-> <<
            EnvVar("POSTGRES_USER", "postgres", "PostgreSQL username", FALSE),
            EnvVar("POSTGRES_PASSWORD", password, "PostgreSQL password", TRUE),
            EnvVar("POSTGRES_DB", name, "PostgreSQL database name", FALSE),
            EnvVar("DATABASE_URL",
                   "postgresql://postgres:" \o password \o "@" \o ds.Name
                     \o ":5432/" \o name,
                   "PostgreSQL connection string", TRUE)>>,
          logs |-> {}]
       [] ds.Type = DatastoreMySQL ->
         LET rootPassword == generatePassword(16, stream, k + 1)
         IN [service |-> [base EXCEPT
            !.Image = "mysql:" \o ds.Tag,
            !.Ports = <<Itoa(ds.Port) \o ":3306">>,
            !.Volumes = <<volumeName \o ":/var/lib/mysql">>,
            !.Environment =
               [MYSQL_ROOT_PASSWORD |-> "${MYSQL_ROOT_PASSWORD}",
                MYSQL_DATABASE |-> "${MYSQL_DATABASE:-" \o name \o "}",
                MYSQL_USER |-> "${MYSQL_USER:-app}",
                MYSQL_PASSWORD |-> "${MYSQL_PASSWORD}"],
            !.HealthCheck =
               ComposeHealth(<<"CMD", "mysqladmin", "ping", "-h", "localhost">>,
                             "30s")],
          envs |-> <<
            EnvVar("MYSQL_ROOT_PASSWORD", rootPassword, "MySQL root password",
                   TRUE),
            EnvVar("MYSQL_DATABASE", name, "MySQL database name", FALSE),
            EnvVar("MYSQL_USER", "app", "MySQL application user", FALSE),
            EnvVar("MYSQL_PASSWORD", password, "MySQL application password",
                   TRUE),
            EnvVar("MYSQL_URL",
                   "mysql://app:" \o password \o "@" \o ds.Name \o ":3306/"
                     \o name,
                   "MySQL connection string", TRUE)>>,
          logs |-> {}]
       [] ds.Type = DatastoreMSSQL ->
         \* the password of line 81 is generated and not used
         LET strongPassword == generateStrongPassword(16, stream, k + 1)
         IN [service |-> [base EXCEPT
            !.Image = "mcr.microsoft.com/mssql/server:" \o ds.Tag,
            !.Ports = <<Itoa(ds.Port) \o ":1433">>,
            !.Volumes = <<volumeName \o ":/var/opt/mssql">>,
            !.Environment = MSSQLEnvironment,
            !.HealthCheck =
               ComposeHealth(<<"CMD-SHELL",
                 "/opt/mssql-tools/bin/sqlcmd -S localhost -U sa -P \"$MSSQL_SA_PASSWORD\" -Q \"SELECT 1\" || exit 1">>,
                 "30s")],
          envs |-> <<
            EnvVar("MSSQL_SA_PASSWORD", strongPassword,
                   "SQL Server SA password (Developer Edition)", TRUE),
            EnvVar("MSSQL_URL",
                   "Server=" \o ds.Name
                     \o ",1433;Database=master;User Id=sa;Password="
                     \o strongPassword \o ";TrustServerCertificate=True",
                   "SQL Server connection string", TRUE)>>,
          logs |-> {}]
       [] ds.Type = DatastoreNeo4j ->
         [service |-> [base EXCEPT
            !.Image = Neo4jImage(ds.Tag),
            !.Ports = <<Itoa(ds.Port) \o ":7474",
                        Itoa(ds.Port + 213) \o ":7687">>,
            !.Volumes = <<volumeName \o ":/data", ds.Name \o "-logs:/logs">>,
            !.Environment = [NEO4J_AUTH |-> "${NEO4J_AUTH:-neo4j/password}"],
            !.HealthCheck =
               ComposeHealth(<<"CMD-SHELL",
                 "wget --no-verbose --tries=1 --spider http://localhost:7474 || exit 1">>,
                 "30s")],
          envs |-> <<
            EnvVar("NEO4J_AUTH", "neo4j/" \o password,
                   "Neo4j authentication (Community Edition)", TRUE),
            EnvVar("NEO4J_URI", "bolt://" \o ds.Name \o ":7687",
                   "Neo4j Bolt connection URI", FALSE)>>,
          logs |-> {ds.Name \o "-logs"}]
       [] ds.Type = DatastoreRedis ->
         [service |-> [base EXCEPT
            !.Image = "redis:" \o ds.Tag,
            !.Ports = <<Itoa(ds.Port) \o ":6379">>,
            !.Volumes = <<volumeName \o ":/data">>,
            !.Command =
               "redis-server --appendonly yes --requirepass ${REDIS_PASSWORD}",
            !.HealthCheck =
               ComposeHealth(<<"CMD", "redis-cli", "--pass",
                               "${REDIS_PASSWORD}", "ping">>, "5s")],
          envs |-> <<
            EnvVar("REDIS_PASSWORD", password, "Redis password", TRUE),
            EnvVar("REDIS_URL",
                   "redis://:" \o password \o "@" \o ds.Name \o ":6379",
                   "Redis connection string", TRUE)>>,
          logs |-> {}]
       [] ds.Type = DatastoreRedisStack ->
         [service |-> [base EXCEPT
            !.Image = "redis/redis-stack:" \o ds.Tag,
            !.Ports = <<Itoa(ds.Port) \o ":6379",
                        Itoa(ds.Port + 1622) \o ":8001">>,
            !.Volumes = <<volumeName \o ":/data">>,
            !.Environment =
               [REDIS_ARGS |-> "--requirepass ${REDIS_STACK_PASSWORD}"],
            !.HealthCheck =
               ComposeHealth(<<"CMD", "redis-cli", "--pass",
                               "${REDIS_STACK_PASSWORD}", "ping">>, "5s")],
          envs |-> <<
            EnvVar("REDIS_STACK_PASSWORD", password,
                   "Redis Stack password (Community)", TRUE),
            EnvVar("REDIS_STACK_URL",
                   "redis://:" \o password \o "@" \o ds.Name \o ":6379",
                   "Redis Stack connection string", TRUE)>>,
          logs |-> {}]
       [] OTHER ->
         [service |-> ZeroService, envs |-> <<>>, logs |-> {}]
    IN  The({switch(password) : password \in {generatePassword(16, stream, k)}})

\* generateRuntimeService
generateRuntimeService(gen, rt, network) ==
    LET service == [ZeroService EXCEPT
           !.Build = [Context |-> rt.BuildContext,
                      Dockerfile |-> rt.Dockerfile],
           !.ContainerName = gen.project.Name \o "-" \o rt.Name,
           !.Ports = <<Itoa(rt.Port) \o ":" \o Itoa(rt.InternalPort)>>,
           !.Volumes = <<"./" \o rt.BuildContext \o ":/app">>,
           !.EnvFile = <<".env">>,
           !.Networks = <<network>>,
           !.Restart = "unless-stopped",
           !.DependsOn = rt.DependsOn]
        port == EnvVar("PORT", Itoa(rt.InternalPort), "Application port",
                       FALSE)
        mode(key, description) ==
            EnvVar(key, "development", description, FALSE)
    IN CASE rt.Type = RuntimeGo ->
         [service |-> service,
          envs |-> <<mode("GO_ENV", "Go environment"), port>>,
          dockerfile |-> Dockerfile(RuntimeGo, rt.Framework)]
       [] rt.Type = RuntimeNode ->
         [service |-> service,
          envs |-> <<mode("NODE_ENV", "Node environment"), port>>,
          dockerfile |-> Dockerfile(RuntimeNode, rt.Framework)]
       [] rt.Type = RuntimePython ->
         [service |-> service,
          envs |-> <<mode("PYTHON_ENV", "Python environment"), port>>,
          dockerfile |-> Dockerfile(RuntimePython, rt.Framework)]
       [] rt.Type = RuntimeJava ->
         [service |-> service,
          envs |-> <<mode("JAVA_ENV", "Java environment"), port>>,
          dockerfile |-> Dockerfile(RuntimeJava, rt.Framework)]
       [] rt.Type = RuntimeRust ->
         [service |-> service,
          envs |-> <<mode("RUST_ENV", "Rust environment"), port>>,
          dockerfile |-> Dockerfile(RuntimeRust, rt.Framework)]
       [] rt.Type = RuntimeCSharp ->
         [service |-> service,
          envs |-> <<
            EnvVar("ASPNETCORE_ENVIRONMENT", "Development",
                   ".NET environment", FALSE),
            EnvVar("ASPNETCORE_URLS",
                   "http://+:" \o Itoa(rt.InternalPort),
                   "ASP.NET Core URLs", FALSE)>>,
          dockerfile |-> Dockerfile(RuntimeCSharp, rt.Framework)]
       [] OTHER ->
         [service |-> service, envs |-> <<>>, dockerfile |-> ""]

RECURSIVE PutAll(_, _, _)

\* the map is left without the keys
PutAllSkipped(m, keys, v) == m
PutAll(m, keys, v) ==
    IF keys = {} THEN m
    ELSE LET k == CHOOSE x \in keys : TRUE
         IN  PutAll(Put(m, k, v), keys \ {k}, v)

\* Generate, lines 46-58: the loop over g.project.Datastores from index i,
\* k being the index of the next read of the random source
RECURSIVE ProcessDatastores(_, _, _, _, _)
ProcessDatastores(gen, networkName, stream, i, k) ==
    IF i > Len(gen.project.Datastores) THEN gen
    ELSE LET ds == gen.project.Datastores[i]
             volumeName == ds.Name \o "-data"
             next(r) ==
               [gen EXCEPT
                  !.compose.Services = Put(@, ds.Name, r.service),
                  !.compose.Volumes =
                     Put(PutAll(@, r.logs, EmptyMap), volumeName, EmptyMap),
                  !.envVars = @ \o r.envs]
         IN  ProcessDatastores(
               The({next(r) : r \in {generateDatastoreService(
                                        gen, ds, networkName, stream, k)}}),
               networkName, stream, i + 1, k + ReadsOf(ds.Type))

\* Generate, lines 60-71: the loop over g.project.Runtimes from index i
RECURSIVE ProcessRuntimes(_, _, _)
ProcessRuntimes(gen, networkName, i) ==
    IF i > Len(gen.project.Runtimes) THEN gen
    ELSE LET rt == gen.project.Runtimes[i]
             next(r) ==
               [gen EXCEPT
                  !.compose.Services = Put(@, rt.Name, r.service),
                  !.envVars = @ \o r.envs,
                  !.dockerfiles =
                     IF r.dockerfile # "" THEN Put(@, rt.Name, r.dockerfile)
                     ELSE @]
         IN  ProcessRuntimes(
               The({next(r) : r \in {generateRuntimeService(
                                        gen, rt, networkName)}}),
               networkName, i + 1)

ComposeHeader ==
    <<"# Generated by stackgen - Local Development Environment Generator",
      "# For local development and testing only.",
      "# Review configurations before any production use.",
      "#",
      "# Usage:",
      "#   docker compose up -d      # Start all services",
      "#   docker compose down       # Stop all services",
      "#   docker compose logs -f    # View logs",
      "#",
      "">>

\* yaml.Marshal(g.compose): the document of the struct's fields under their
\* yaml tags (version is empty and omitted), a value of its own
yamlMarshal(compose) ==
    [services |-> compose.Services, volumes |-> compose.Volumes,
     networks |-> compose.Networks]

addComposeHeader(yaml) == [header |-> ComposeHeader, body |-> yaml]

\* the value of a secret variable is left out of the document
EnvLinesSecretsDropped(env) ==
    (IF env.Description # "" THEN <<"# " \o env.Description>> ELSE <<>>)
    \o <<env.Key \o "=" \o (IF env.Secret THEN "" ELSE env.Value)>>

\* buildOutput, lines 330-335: the lines written for one variable
EnvLines(env) ==
    (IF env.Description # "" THEN <<"# " \o env.Description>> ELSE <<>>)
    \o <<env.Key \o "=" \o env.Value>>

\* buildOutput, line 347: the placeholder of a secret variable
Placeholder(key) == "<your-" \o ToLower(ReplaceAll(key, "_", "-")) \o ">"

\* the example document is written without the redaction branch
EnvExampleLinesUnredacted(env) ==
    (IF env.Description # "" THEN <<"# " \o env.Description>> ELSE <<>>)
    \o <<env.Key \o "=" \o env.Value>>

\* buildOutput, lines 342-351: the lines written for one variable
EnvExampleLines(env) ==
    (IF env.Description # "" THEN <<"# " \o env.Description>> ELSE <<>>)
    \o (IF env.Secret
        THEN <<env.Key \o "=" \o Placeholder(env.Key)>>
        ELSE <<env.Key \o "=" \o env.Value>>)

\* buildOutput; Dockerfiles is the generator's own map, not a copy
buildOutput(gen) ==
    [ComposeYAML |-> addComposeHeader(yamlMarshal(gen.compose)),
     EnvFile |->
        <<"# Generated by stackgen - For local development only",
          "# WARNING: Do not commit this file to version control",
          "">>
        \o Flatten([i \in 1..Len(gen.envVars) |-> EnvLines(gen.envVars[i])]),
     EnvExampleFile |->
        <<"# Environment variables for stackgen",
          "# Copy this file to .env and fill in the values",
          "">>
        \o Flatten([i \in 1..Len(gen.envVars) |->
                      EnvExampleLines(gen.envVars[i])]),
     GitIgnore |-> GitIgnore,
     Dockerfiles |-> gen.dockerfiles]

\* Generate: the generator after the call, the returned bundle and error
Generate(gen, stream) ==
    LET networkName == gen.project.Name \o "-network"
        g0 == [gen EXCEPT
                 !.compose.Networks =
                    Put(EmptyMap, networkName, [driver |-> "bridge"]),
                 !.compose.Volumes = EmptyMap]
        g1 == ProcessDatastores(g0, networkName, stream, 1, 1)
        return(g2) == [gen |-> g2, output |-> buildOutput(g2), err |-> "nil"]
    IN  The({return(g2) : g2 \in {ProcessRuntimes(g1, networkName, 1)}})

\* number of reads of the random source one Generate of project p makes
RECURSIVE TotalReads(_)
TotalReads(dss) ==
    IF dss = <<>> THEN 0 ELSE ReadsOf(Head(dss).Type) + TotalReads(Tail(dss))

\* a read of the random source fails during Generate of p with this stream
ReadFails(p, stream) == stream.failAt \in 1..TotalReads(p.Datastores)

----------------------------------------------------------------------------
(* internal/profiles *)

RuntimeConfig(type, framework) == [Type |-> type, Framework |-> framework]

Profile(name, datastores, runtimes) ==
    [Name |-> name, Datastores |-> datastores, Runtimes |-> runtimes]

AvailableProfiles ==
    <<Profile("web-app", <<DatastorePostgres, DatastoreRedis>>,
              <<RuntimeConfig(RuntimeNode, "express")>>),
      Profile("api", <<DatastorePostgres>>,
              <<RuntimeConfig(RuntimeGo, "stdlib")>>),
      Profile("ml", <<DatastorePostgres, DatastoreRedis>>,
              <<RuntimeConfig(RuntimePython, "fastapi")>>),
      Profile("fullstack",
              <<DatastorePostgres, DatastoreRedis, DatastoreNeo4j>>,
              <<RuntimeConfig(RuntimeNode, "express"),
                RuntimeConfig(RuntimeGo, "stdlib")>>),
      Profile("java-enterprise", <<DatastorePostgres, DatastoreRedis>>,
              <<RuntimeConfig(RuntimeJava, "spring-boot")>>),
      Profile("dotnet", <<DatastoreMSSQL>>,
              <<RuntimeConfig(RuntimeCSharp, "aspnetcore")>>),
      Profile("rust-api", <<DatastorePostgres, DatastoreRedis>>,
              <<RuntimeConfig(RuntimeRust, "actix-web")>>)>>

\* the runtimes depend on the first datastore of the profile only
BuildProjectFromProfileFirstOnly(profile, projectName, outputDir) ==
    LET portOffset == 0
        datastores ==
            [i \in 1..Len(profile.Datastores) |->
               LET dsType == profile.Datastores[i]
                   info == GetDatastoreInfo(dsType)
               IN  Datastore(dsType, dsType, info.DefaultPort + portOffset,
                             info.DefaultPort, getDefaultTag(dsType))]
        dependsOn == SubSeq(profile.Datastores, 1, 1)
        runtimes ==
            [i \in 1..Len(profile.Runtimes) |->
               LET rtConfig == profile.Runtimes[i]
                   info == GetRuntimeInfo(rtConfig.Type)
                   runtimePortOffset == (i - 1) * 1000
               IN  Runtime(rtConfig.Type, rtConfig.Type \o "-app",
                           rtConfig.Framework,
                           info.DefaultPort + runtimePortOffset,
                           info.DefaultPort, dependsOn)]
    IN  Project(projectName, outputDir, profile.Name, datastores, runtimes)

\* BuildProjectFromProfile; portOffset stays 0, runtimePortOffset grows by
\* 1000 per runtime
BuildProjectFromProfile(profile, projectName, outputDir) ==
    LET portOffset == 0
        datastores ==
            [i \in 1..Len(profile.Datastores) |->
               LET dsType == profile.Datastores[i]
                   info == GetDatastoreInfo(dsType)
               IN  Datastore(dsType, dsType, info.DefaultPort + portOffset,
                             info.DefaultPort, getDefaultTag(dsType))]
        dependsOn == profile.Datastores
        runtimes ==
            [i \in 1..Len(profile.Runtimes) |->
               LET rtConfig == profile.Runtimes[i]
                   info == GetRuntimeInfo(rtConfig.Type)
                   runtimePortOffset == (i - 1) * 1000
               IN  Runtime(rtConfig.Type, rtConfig.Type \o "-app",
                           rtConfig.Framework,
                           info.DefaultPort + runtimePortOffset,
                           info.DefaultPort, dependsOn)]
    IN  Project(projectName, outputDir, profile.Name, datastores, runtimes)

\* the nil *Profile
NilProfile == [nil |-> TRUE]

\* a name that matches no profile gives the first profile
GetProfileOrFirst(name) ==
    IF \E i \in 1..Len(AvailableProfiles) : AvailableProfiles[i].Name = name
    THEN AvailableProfiles[
           CHOOSE i \in 1..Len(AvailableProfiles) :
             AvailableProfiles[i].Name = name]
    ELSE AvailableProfiles[1]

\* GetProfile: the first built-in profile of that name, or nil
GetProfile(name) ==
    IF \E i \in 1..Len(AvailableProfiles) : AvailableProfiles[i].Name = name
    THEN AvailableProfiles[
           CHOOSE i \in 1..Len(AvailableProfiles) :
             /\ AvailableProfiles[i].Name = name
             /\ \A j \in 1..(i - 1) : AvailableProfiles[j].Name # name]
    ELSE NilProfile

----------------------------------------------------------------------------
(* cmd/add.go: what addDatastore and addRuntime do to the Project *)

\* no check for the kind
AlreadyInConfigurationUnchecked(p, dsType) == FALSE
\* addDatastore, lines 138-142: the kind is already in the configuration
AlreadyInConfiguration(p, dsType) ==
    \E i \in 1..Len(p.Datastores) : p.Datastores[i].Type = dsType

RECURSIVE FindAvailablePort(_, _, _)
RECURSIVE FindFreeName(_, _, _, _)

\* the default port taken without probing
FindAvailablePortNoProbe(port, usedPorts, inc) == port
\* "Find available port": for usedPorts[port] { port += inc }
FindAvailablePort(port, usedPorts, inc) ==
    IF port \in usedPorts THEN FindAvailablePort(port + inc, usedPorts, inc)
    ELSE port

\* addDatastore, lines 144-163: the Project after the append
AppendDatastore(p, dsType) ==
    LET info == GetDatastoreInfo(dsType)
        usedPorts == {p.Datastores[i].Port : i \in 1..Len(p.Datastores)}
        port == FindAvailablePort(info.DefaultPort, usedPorts, 1)
    IN  [p EXCEPT !.Datastores =
           Append(@, Datastore(dsType, dsType, port, info.DefaultPort,
                               getDefaultTag(dsType)))]

\* the base name taken without the duplicate check
FindFreeNameNoCheck(baseName, name, counter, names) == name
\* addRuntime, lines 187-204: "Check for duplicate name"
FindFreeName(baseName, name, counter, names) ==
    IF name \in names
    THEN FindFreeName(baseName, baseName \o "-" \o Itoa(counter + 1),
                      counter + 1, names)
    ELSE name

\* the runtime is appended without its dependency list
AppendRuntimeNoDependsOn(p, rtType, framework) ==
    LET info == GetRuntimeInfo(rtType)
        baseName == rtType \o "-app"
        names == {p.Runtimes[i].Name : i \in 1..Len(p.Runtimes)}
        name == FindFreeName(baseName, baseName, 1, names)
        usedPorts == {p.Runtimes[i].Port : i \in 1..Len(p.Runtimes)}
        port == FindAvailablePort(info.DefaultPort, usedPorts, 1000)
    IN  [p EXCEPT !.Runtimes =
           Append(@, Runtime(rtType, name, framework, port, info.DefaultPort,
                             <<>>))]

\* addRuntime, lines 187-232: the Project after the append
AppendRuntime(p, rtType, framework) ==
    LET info == GetRuntimeInfo(rtType)
        baseName == rtType \o "-app"
        names == {p.Runtimes[i].Name : i \in 1..Len(p.Runtimes)}
        name == FindFreeName(baseName, baseName, 1, names)
        usedPorts == {p.Runtimes[i].Port : i \in 1..Len(p.Runtimes)}
        port == FindAvailablePort(info.DefaultPort, usedPorts, 1000)
        dependsOn == [i \in 1..Len(p.Datastores) |-> p.Datastores[i].Name]
    IN  [p EXCEPT !.Runtimes =
           Append(@, Runtime(rtType, name, framework, port, info.DefaultPort,
                             dependsOn))]

----------------------------------------------------------------------------
(* The generator API: New and Generate called on a Project *)

ProjectName == "demo"

EmptyProject == Project(ProjectName, ".", "", <<>>, <<>>)

Range(f) == {f[i] : i \in DOMAIN f}

\* the lists of up to n kinds, without repetition when distinct
KindLists(kinds, n, distinct) ==
    {l \in UNION {[1..m -> Range(kinds)] : m \in 0..n} :
        distinct => \A i, j \in DOMAIN l : i # j => l[i] # l[j]}

RECURSIVE AppendDatastores(_, _)
AppendDatastores(p, kinds) ==
    IF kinds = <<>> THEN p
    ELSE AppendDatastores(AppendDatastore(p, Head(kinds)), Tail(kinds))

RECURSIVE AppendRuntimes(_, _)
AppendRuntimes(p, kinds) ==
    IF kinds = <<>> THEN p
    ELSE AppendRuntimes(
           AppendRuntime(p, Head(kinds), GetRuntimeInfo(Head(kinds)).Frameworks[1]),
           Tail(kinds))

\* version tags a stackgen.yaml can request in place of the default one
RequestedTags == {"", "4.4", "5.26-enterprise"}

\* the Project of one neo4j datastore loaded from a stackgen.yaml whose tag
\* field was set
TaggedProjects ==
    {[p EXCEPT !.Datastores[1].Tag = tag] :
        p \in {AppendDatastore(EmptyProject, DatastoreNeo4j)},
        tag \in RequestedTags}

\* the Projects of a stackgen.yaml in which the postgres datastore was given
\* another name before a go runtime was added
RenamedProjects ==
    {AppendRuntime([p EXCEPT !.Datastores[1].Name = name], RuntimeGo, "gin") :
        p \in {AppendDatastore(EmptyProject, DatastorePostgres)},
        name \in {"db", "go-app"}}

\* the Projects handed to the generator: the built-in profiles, the
\* Projects the add command builds and the Projects of an edited stackgen.yaml
GenProjects ==
    TaggedProjects
    \cup
    RenamedProjects
    \cup
    {BuildProjectFromProfile(AvailableProfiles[i], ProjectName, ".") :
        i \in DOMAIN AvailableProfiles}
    \cup
    {AppendRuntimes(AppendDatastores(EmptyProject, k[1]), k[2]) :
        k \in {kk \in KindLists(AvailableDatastores, MaxGenInstances, TRUE)
                        \X KindLists(AvailableRuntimes, MaxGenInstances, FALSE) :
                  Len(kk[1]) + Len(kk[2]) <= MaxGenInstances}}

NoFile == [exists |-> FALSE]
NoModel == [nil |-> TRUE]
NoOutput == [called |-> FALSE]
NoCmd == [op |-> "none"]

Returned(r) == [called |-> TRUE, bundle |-> r.output, err |-> r.err]

InitGen ==
    /\ pc = "new"
    /\ project \in GenProjects
    /\ g = New(project)
    /\ out1 = NoOutput
    /\ out2 = NoOutput
    /\ randFailed = {}
    /\ configFile = NoFile
    /\ disk = NoFile
    /\ lastCmd = NoCmd
    /\ selected = <<>>
    /\ selectedMap = {}
    /\ toggles = 0
    /\ freedPorts = {}
    /\ testModel = NoModel

idleCmd ==
    <<configFile, disk, lastCmd, selected, selectedMap, toggles, freedPorts,
      testModel>>

\* gen := New(project); output, err := gen.Generate()
GenerateFirst ==
    /\ pc = "new"
    /\ \E stream \in RandStreams :
         \E r \in {Generate(g, stream)} :
             /\ g' = r.gen
             /\ out1' = Returned(r)
             /\ randFailed' = IF ReadFails(project, stream) THEN {1} ELSE {}
    /\ pc' = "once"
    /\ UNCHANGED <<project, out2, idleCmd>>

\* a second gen.Generate() on the same Generator; the first bundle's
\* Dockerfiles map is the generator's map
GenerateAgain ==
    /\ pc = "once"
    /\ \E stream \in RandStreams :
         \E r \in {Generate(g, stream)} :
             /\ g' = r.gen
             /\ out2' = Returned(r)
             /\ out1' = [out1 EXCEPT !.bundle.Dockerfiles = r.gen.dockerfiles]
             /\ randFailed' =
                  randFailed \cup
                  (IF ReadFails(project, stream) THEN {2} ELSE {})
    /\ pc' = "twiceSame"
    /\ UNCHANGED <<project, idleCmd>>

\* a second generation as the commands do it: New(project).Generate()
GenerateFresh ==
    /\ pc = "once"
    /\ \E stream \in RandStreams :
         \E r \in {Generate(New(project), stream)} :
             /\ g' = r.gen
             /\ out2' = Returned(r)
             /\ randFailed' =
                  randFailed \cup
                  (IF ReadFails(project, stream) THEN {2} ELSE {})
    /\ pc' = "twiceFresh"
    /\ UNCHANGED <<project, out1, idleCmd>>

NextGen == GenerateFirst \/ GenerateAgain \/ GenerateFresh

SpecGen == InitGen /\ [][NextGen]_vars

----------------------------------------------------------------------------
(* The add command run in a project directory: stackgen.yaml and the       *)
(* generated artifacts on disk *)

\* yaml.Marshal(project): the document of the fields under their yaml tags
yamlMarshalProject(p) ==
    [name |-> p.Name, output_dir |-> p.OutputDir, profile |-> p.Profile,
     datastores |->
        [i \in 1..Len(p.Datastores) |->
           [type |-> p.Datastores[i].Type, name |-> p.Datastores[i].Name,
            tag |-> p.Datastores[i].Tag, port |-> p.Datastores[i].Port,
            internal_port |-> p.Datastores[i].InternalPort]],
     runtimes |->
        [i \in 1..Len(p.Runtimes) |->
           [type |-> p.Runtimes[i].Type, name |-> p.Runtimes[i].Name,
            framework |-> p.Runtimes[i].Framework,
            port |-> p.Runtimes[i].Port,
            internal_port |-> p.Runtimes[i].InternalPort,
            build_context |-> p.Runtimes[i].BuildContext,
            dockerfile |-> p.Runtimes[i].Dockerfile,
            depends_on |-> p.Runtimes[i].DependsOn]]]

\* yaml.Unmarshal(data, project)
yamlUnmarshalProject(data) ==
    [Name |-> data.name, OutputDir |-> data.output_dir,
     Profile |-> data.profile,
     Datastores |->
        [i \in 1..Len(data.datastores) |->
           [Type |-> data.datastores[i].type, Name |-> data.datastores[i].name,
            Port |-> data.datastores[i].port,
            InternalPort |-> data.datastores[i].internal_port,
            Tag |-> data.datastores[i].tag]],
     Runtimes |->
        [i \in 1..Len(data.runtimes) |->
           [Type |-> data.runtimes[i].type, Name |-> data.runtimes[i].name,
            Framework |-> data.runtimes[i].framework,
            Port |-> data.runtimes[i].port,
            InternalPort |-> data.runtimes[i].internal_port,
            BuildContext |-> data.runtimes[i].build_context,
            Dockerfile |-> data.runtimes[i].dockerfile,
            DependsOn |-> data.runtimes[i].depends_on]]]

ConfigFile(data) == [exists |-> TRUE, data |-> data]

RECURSIVE WriteDockerfiles(_, _, _)
WriteDockerfiles(dir, dockerfiles, names) ==
    IF names = {} THEN dir
    ELSE LET name == CHOOSE x \in names : TRUE
         IN  WriteDockerfiles(
               Put(dir, name \o "/Dockerfile", dockerfiles[name]),
               dockerfiles, names \ {name})

\* WriteToDir when every write succeeds: the directory afterwards
WriteToDir(out, dir) ==
    WriteDockerfiles(
      Put(Put(Put(Put(dir, "docker-compose.yml", out.ComposeYAML),
                  ".env", out.EnvFile),
              ".env.example", out.EnvExampleFile),
          ".gitignore", out.GitIgnore),
      out.Dockerfiles, DOMAIN out.Dockerfiles)

\* the types named on the command line: add datastore <type>
DatastoreArgs ==
    {DatastoreRedis, DatastoreRedisStack, "mongo"}

\* the types named on the command line: add runtime <type>
RuntimeArgs == {RuntimeGo, RuntimeJava, "ruby"}

\* the answer to the framework prompt: the number of the chosen item, or 0
\* when prompt.Run() returns an error
FrameworkInputs == {0, 2}

\* the outcomes of the file system calls of saveAndRegenerate
IoOutcomes == {"ok", "WriteFile fails", "MkdirAll fails"}

\* the random streams a command draws from
CommandStreams == {RandStream(197, 29, 0)}

\* runAdd, lines 45-66: the Project the command works on; the directory is
\* named after the project
runAddProject ==
    IF configFile.exists THEN yamlUnmarshalProject(configFile.data)
    ELSE Project(ProjectName, ".", "", <<>>, <<>>)

\* runAdd, lines 45-49: "no configuration found"
NoConfiguration ==
    ~configFile.exists /\ "docker-compose.yml" \notin DOMAIN disk

Cmd(op, err) == [op |-> op, err |-> err]

\* the command line with the persistent flag --dry-run of the root command
WithDryRun(op, dryRun) == IF dryRun THEN op \o " --dry-run" ELSE op

\* saveAndRegenerate(p, configPath) with the outcome io of its file system
\* calls
saveAndRegenerate(op, p, io, stream) ==
    /\ project' = p
    /\ IF io = "WriteFile fails"
       THEN /\ lastCmd' = Cmd(op, "failed to save config")
            /\ UNCHANGED <<configFile, disk>>
       ELSE /\ configFile' = ConfigFile(yamlMarshalProject(p))
            /\ IF io = "MkdirAll fails"
               THEN /\ lastCmd' = Cmd(op, "failed to create output directory")
                    /\ UNCHANGED disk
               ELSE /\ lastCmd' = Cmd(op, "nil")
                    /\ disk' = WriteToDir(Generate(New(p), stream).output,
                                          disk)

\* stackgen add datastore <dsType> [--dry-run]: runAdd and addDatastore;
\* neither reads the flag.  The flag is drawn from flags and the outcome of
\* the file system calls from outcomes
addDatastoreIn(dsType, flags, outcomes) ==
    /\ pc = "shell"
    /\ ~NoConfiguration
    /\ \E p \in {runAddProject}, dryRun \in flags :
         IF AlreadyInConfiguration(p, dsType)
         THEN /\ project' = p
              /\ lastCmd' = Cmd(WithDryRun("addDatastore", dryRun),
                                "already in the configuration")
              /\ UNCHANGED <<configFile, disk>>
         ELSE /\ Len(p.Datastores) + Len(p.Runtimes) < MaxAddInstances
              /\ \E io \in outcomes, stream \in CommandStreams :
                   saveAndRegenerate(WithDryRun("addDatastore", dryRun),
                                     AppendDatastore(p, dsType), io, stream)
    /\ UNCHANGED <<pc, g, out1, out2, randFailed, selected, selectedMap,
                   toggles, freedPorts, testModel>>

addDatastore(dsType) == addDatastoreIn(dsType, BOOLEAN, IoOutcomes)

\* stackgen add runtime <rtType> [--dry-run]: runAdd and addRuntime;
\* info.Frameworks[0] panics for a type outside the catalog.  The flag is
\* drawn from flags, the answer to the framework prompt from choices and the
\* outcome of the file system calls from outcomes
addRuntimeIn(rtType, flags, choices, outcomes) ==
    /\ pc = "shell"
    /\ ~NoConfiguration
    /\ \E p \in {runAddProject}, info \in {GetRuntimeInfo(rtType)},
          dryRun \in flags :
         IF Len(info.Frameworks) = 0
         THEN /\ project' = p
              /\ lastCmd' = Cmd(WithDryRun("addRuntime", dryRun),
                                "panic: index out of range")
              /\ UNCHANGED <<configFile, disk>>
         ELSE /\ Len(p.Datastores) + Len(p.Runtimes) < MaxAddInstances
              /\ \E choice \in choices,
                    io \in outcomes, stream \in CommandStreams :
                   LET framework ==
                         IF Len(info.Frameworks) > 1
                         THEN (IF choice = 0 THEN ""
                               ELSE info.Frameworks[choice])
                         ELSE info.Frameworks[1]
                   IN  saveAndRegenerate(
                         WithDryRun("addRuntime", dryRun),
                         AppendRuntime(p, rtType, framework), io, stream)
    /\ UNCHANGED <<pc, g, out1, out2, randFailed, selected, selectedMap,
                   toggles, freedPorts, testModel>>

addRuntime(rtType) ==
    addRuntimeIn(rtType, BOOLEAN, FrameworkInputs, IoOutcomes)

\* the directory after `stackgen init --yes` with nothing selected: init
\* writes the artifacts and no stackgen.yaml
InitAdd ==
    /\ pc = "shell"
    /\ project = EmptyProject
    /\ g = New(EmptyProject)
    /\ out1 = NoOutput
    /\ out2 = NoOutput
    /\ randFailed = {}
    /\ configFile = NoFile
    /\ disk = WriteToDir(Generate(New(EmptyProject),
                                  RandStream(58, 71, 0)).output, EmptyMap)
    /\ lastCmd = NoCmd
    /\ selected = <<>>
    /\ selectedMap = {}
    /\ toggles = 0
    /\ freedPorts = {}
    /\ testModel = NoModel

NextAdd ==
    \/ \E dsType \in DatastoreArgs : addDatastore(dsType)
    \/ \E rtType \in RuntimeArgs : addRuntime(rtType)

SpecAdd == InitAdd /\ [][NextAdd]_vars

----------------------------------------------------------------------------
(* The add command in a directory whose stackgen.yaml is also edited by     *)
(* hand: no command removes an instance, the user deletes its entry.  The   *)
(* add commands here name a type of the catalog and run without --dry-run, *)
(* every file system call works and the second framework is chosen *)

RemoveAt(list, i) == SubSeq(list, 1, i - 1) \o SubSeq(list, i + 1, Len(list))

FreedPort(category, port) == [category |-> category, port |-> port]

\* the user deletes the i-th datastore from stackgen.yaml; the next command
\* reads the file as it is (runAdd, lines 57-65)
removeDatastore(i) ==
    /\ pc = "shell"
    /\ configFile.exists
    /\ Cardinality(freedPorts) < MaxRemovals
    /\ \E p \in {yamlUnmarshalProject(configFile.data)} :
         /\ i \in 1..Len(p.Datastores)
         /\ configFile' = ConfigFile(yamlMarshalProject(
                             [p EXCEPT !.Datastores = RemoveAt(@, i)]))
         /\ freedPorts' = freedPorts \cup
                            {FreedPort("datastore", p.Datastores[i].Port)}
    /\ lastCmd' = Cmd("edit stackgen.yaml", "nil")
    /\ UNCHANGED <<pc, project, g, out1, out2, randFailed, disk, selected,
                   selectedMap, toggles, testModel>>

\* the user deletes the i-th runtime from stackgen.yaml
removeRuntime(i) ==
    /\ pc = "shell"
    /\ configFile.exists
    /\ Cardinality(freedPorts) < MaxRemovals
    /\ \E p \in {yamlUnmarshalProject(configFile.data)} :
         /\ i \in 1..Len(p.Runtimes)
         /\ configFile' = ConfigFile(yamlMarshalProject(
                             [p EXCEPT !.Runtimes = RemoveAt(@, i)]))
         /\ freedPorts' = freedPorts \cup
                            {FreedPort("runtime", p.Runtimes[i].Port)}
    /\ lastCmd' = Cmd("edit stackgen.yaml", "nil")
    /\ UNCHANGED <<pc, project, g, out1, out2, randFailed, disk, selected,
                   selectedMap, toggles, testModel>>

\* the name a user gives a datastore in stackgen.yaml
EditedNames == {DatastoreRedis}

\* the user changes the name of the i-th datastore in stackgen.yaml to one
\* no other datastore of the file has; an instance is renamed once
renameDatastore(i, name) ==
    /\ pc = "shell"
    /\ configFile.exists
    /\ \E p \in {yamlUnmarshalProject(configFile.data)} :
         /\ i \in 1..Len(p.Datastores)
         /\ p.Datastores[i].Name = p.Datastores[i].Type
         /\ \A j \in 1..Len(p.Datastores) : p.Datastores[j].Name # name
         /\ configFile' = ConfigFile(yamlMarshalProject(
                             [p EXCEPT !.Datastores[i].Name = name]))
    /\ lastCmd' = Cmd("edit stackgen.yaml", "nil")
    /\ UNCHANGED <<pc, project, g, out1, out2, randFailed, disk, selected,
                   selectedMap, toggles, freedPorts, testModel>>

\* add datastore <dsType> that runs to its end
addDatastoreOk(dsType) == addDatastoreIn(dsType, {FALSE}, {"ok"})

\* add runtime <rtType> that runs to its end
addRuntimeOk(rtType) == addRuntimeIn(rtType, {FALSE}, {2}, {"ok"})

NextEdit ==
    \/ \E dsType \in DatastoreArgs \cap Range(AvailableDatastores) :
         addDatastoreOk(dsType)
    \/ \E rtType \in RuntimeArgs \cap Range(AvailableRuntimes) :
         addRuntimeOk(rtType)
    \/ \E i \in 1..MaxAddInstances : removeDatastore(i)
    \/ \E i \in 1..MaxAddInstances : removeRuntime(i)
    \/ \E i \in 1..MaxAddInstances, name \in EditedNames :
         renameDatastore(i, name)

SpecEdit == InitAdd /\ [][NextEdit]_vars

----------------------------------------------------------------------------
(* The init command: a profile, or the wizard with its two toggle menus *)

\* the menu of selectDatastores; the last row is [Done]
DatastoreItems ==
    <<DatastorePostgres, DatastoreMySQL, DatastoreMSSQL, DatastoreNeo4j,
      DatastoreRedis, DatastoreRedisStack, "">>

\* the menu of selectRuntimes; the last row is [Done]
RuntimeItems ==
    <<RuntimeGo, RuntimeNode, RuntimePython, RuntimeJava, RuntimeRust,
      RuntimeCSharp, "">>

\* the rows a user toggles: postgres, redis, redis-stack
DatastoreRows == {1, 5, 6}

\* the rows a user toggles: go, node, csharp
RuntimeRows == {1, 2, 6}

\* the values of --profile: none, the built-in names, a name not built in
ProfileNames ==
    {"", "nosuch"} \cup
    {AvailableProfiles[i].Name : i \in 1..Len(AvailableProfiles)}

\* "Return in selection order": the entries of selected whose map entry is set
SelectionResult(sel, selMap) == SelectSeq(sel, LAMBDA x : x \in selMap)

\* interactiveInit, lines 150-163: "Configure selected datastores"
ConfigureDatastores(selectedDatastores) ==
    LET portOffset == 0
    IN  [i \in 1..Len(selectedDatastores) |->
           LET dsType == selectedDatastores[i]
               info == GetDatastoreInfo(dsType)
           IN  Datastore(dsType, dsType, info.DefaultPort + portOffset,
                         info.DefaultPort, getDefaultTag(dsType))]

\* selectFramework with the answer choice to its prompt (0: Run() failed)
selectFramework(rtType, frameworks, choice) ==
    IF Len(frameworks) <= 1
    THEN (IF Len(frameworks) = 1 THEN frameworks[1] ELSE "")
    ELSE IF choice = 0 THEN frameworks[1] ELSE frameworks[choice]

\* interactiveInit, lines 172-199: "Configure selected runtimes"
ConfigureRuntimes(p, selectedRuntimes, choice) ==
    LET dependsOn == [i \in 1..Len(p.Datastores) |-> p.Datastores[i].Name]
    IN  [i \in 1..Len(selectedRuntimes) |->
           LET rtType == selectedRuntimes[i]
               info == GetRuntimeInfo(rtType)
               runtimePortOffset == (i - 1) * 1000
           IN  Runtime(rtType, rtType \o "-app",
                       selectFramework(rtType, info.Frameworks, choice),
                       info.DefaultPort + runtimePortOffset,
                       info.DefaultPort, dependsOn)]

\* runInit, lines 93-111: generate, then print (--dry-run) or write
generateAndWrite(p, dryRun, io, stream) ==
    \E r \in {Generate(New(p), stream)} :
      /\ project' = p
      /\ g' = r.gen
      /\ out1' = Returned(r)
      /\ pc' = "done"
      /\ IF dryRun
         THEN /\ lastCmd' = Cmd(WithDryRun("init", TRUE), "nil")
              /\ UNCHANGED disk
         ELSE IF io = "ok"
         THEN /\ lastCmd' = Cmd(WithDryRun("init", FALSE), "nil")
              /\ disk' = WriteToDir(r.output, disk)
         ELSE /\ lastCmd' = Cmd("init", "failed to write files")
              /\ UNCHANGED disk

\* stackgen init --name demo [--profile p]: runInit up to its first menu
\* prompt; with --profile the whole command
runInit(profileName) ==
    /\ pc = "start"
    /\ IF profileName = ""
       THEN /\ pc' = "selectDatastores"
            /\ project' = Project(ProjectName, ".", "", <<>>, <<>>)
            /\ UNCHANGED <<g, out1, disk, lastCmd>>
       ELSE IF GetProfile(profileName) = NilProfile
       THEN /\ pc' = "done"
            /\ lastCmd' = Cmd("init", "unknown profile")
            /\ UNCHANGED <<project, g, out1, disk>>
       ELSE \E dryRun \in BOOLEAN, io \in {"ok", "MkdirAll fails"},
               stream \in CommandStreams :
              generateAndWrite(
                BuildProjectFromProfile(GetProfile(profileName),
                                        ProjectName, "."),
                dryRun, io, stream)
    /\ UNCHANGED <<out2, randFailed, configFile, selected, selectedMap,
                   toggles, freedPorts, testModel>>

\* "Toggle selection" of a menu row
toggleSelection(type) ==
    /\ toggles < MaxToggles
    /\ toggles' = toggles + 1
    /\ IF type \in selectedMap
       THEN /\ selectedMap' = selectedMap \ {type}
            /\ UNCHANGED selected
       ELSE /\ selectedMap' = selectedMap \cup {type}
            /\ selected' = Append(selected, type)
    /\ UNCHANGED <<pc, project, g, out1, out2, randFailed, configFile, disk,
                   lastCmd, freedPorts, testModel>>

\* selectDatastores: a row other than [Done] is chosen
toggleDatastore(row) ==
    /\ pc = "selectDatastores"
    /\ DatastoreItems[row] # ""
    /\ toggleSelection(DatastoreItems[row])

\* selectDatastores: [Done] is chosen; the datastores are configured and the
\* runtime menu opens
doneDatastores ==
    /\ pc = "selectDatastores"
    /\ pc' = "selectRuntimes"
    /\ project' = [project EXCEPT !.Datastores =
                     ConfigureDatastores(SelectionResult(selected,
                                                         selectedMap))]
    /\ selected' = <<>>
    /\ selectedMap' = {}
    /\ UNCHANGED <<g, out1, out2, randFailed, configFile, disk, lastCmd,
                   toggles, freedPorts, testModel>>

\* selectRuntimes: a row other than [Done] is chosen
toggleRuntime(row) ==
    /\ pc = "selectRuntimes"
    /\ RuntimeItems[row] # ""
    /\ toggleSelection(RuntimeItems[row])

\* selectRuntimes: [Done] is chosen; the frameworks are asked for, the
\* runtimes configured and runInit generates
doneRuntimes ==
    /\ pc = "selectRuntimes"
    /\ \E choice \in FrameworkInputs, dryRun \in BOOLEAN,
          io \in {"ok", "MkdirAll fails"}, stream \in CommandStreams :
         generateAndWrite(
           [project EXCEPT !.Runtimes =
              ConfigureRuntimes(project,
                                SelectionResult(selected, selectedMap),
                                choice)],
           dryRun, io, stream)
    /\ selected' = <<>>
    /\ selectedMap' = {}
    /\ UNCHANGED <<out2, randFailed, configFile, toggles, freedPorts,
                   testModel>>

\* prompt.Run() of a menu returns an error (interrupt): interactiveInit and
\* runInit return it
abortPrompt ==
    /\ pc \in {"selectDatastores", "selectRuntimes"}
    /\ pc' = "done"
    /\ lastCmd' = Cmd("init", "^C")
    /\ selected' = <<>>
    /\ selectedMap' = {}
    /\ UNCHANGED <<project, g, out1, out2, randFailed, configFile, disk,
                   toggles, freedPorts, testModel>>

\* stackgen init is started in an empty directory named after the project
InitInit ==
    /\ pc = "start"
    /\ project = EmptyProject
    /\ g = New(EmptyProject)
    /\ out1 = NoOutput
    /\ out2 = NoOutput
    /\ randFailed = {}
    /\ configFile = NoFile
    /\ disk = EmptyMap
    /\ lastCmd = NoCmd
    /\ selected = <<>>
    /\ selectedMap = {}
    /\ toggles = 0
    /\ freedPorts = {}
    /\ testModel = NoModel

NextInit ==
    \/ \E profileName \in ProfileNames : runInit(profileName)
    \/ \E row \in DatastoreRows : toggleDatastore(row)
    \/ doneDatastores
    \/ \E row \in RuntimeRows : toggleRuntime(row)
    \/ doneRuntimes
    \/ abortPrompt

SpecInit == InitInit /\ [][NextInit]_vars

----------------------------------------------------------------------------
(* The test command: --runtime, or the wizard of testModel.  The list and   *)
(* the text input are the bubbles components; of the list the model keeps   *)
(* the items, the selected index and the width, of the input its value      *)

TestRuntimes == <<"go", "node", "python", "java", "rust", "csharp">>
TestTypes == <<"unit", "integration", "e2e">>

\* the values of --runtime: none, two of the wizard's runtimes, another one
TestRuntimeFlags == {"", "go", "csharp", "ruby"}

\* the keys of a tea.KeyMsg
KeyMsgs == {"enter", "q", "ctrl+c", "esc", "up", "down", "t", "backspace"}

\* the widths of a tea.WindowSizeMsg
Widths == {80}

NilOutput == [nil |-> TRUE]

initialTestModel ==
    [step |-> 0, runtime |-> "", testType |-> "", outputDir |-> "",
     list |-> [items |-> TestRuntimes, index |-> 0, width |-> 50],
     textInput |-> "", done |-> FALSE, generated |-> NilOutput]

TestFileNameOf(runtime) ==
    CASE runtime = "go" -> "main_test.go"
      [] runtime = "node" -> "test/app.test.js"
      [] runtime = "python" -> "tests/test_app.py"
      [] runtime = "java" -> "src/test/java/AppTest.java"
      [] runtime = "rust" -> "tests/integration_test.rs"
      [] runtime = "csharp" -> "Tests/AppTests.cs"

\* the templates give one text for integration and one for the other types
TestTemplate(name, runtime, testType) ==
    runtime \o name
      \o (IF testType = "integration" THEN "(integration)" ELSE "()")

generateTestOutput(runtime, testType, outputDir) ==
    IF runtime \in Range(TestRuntimes)
    THEN [Dockerfile |-> runtime \o "TestDockerfile()",
          ComposeAdd |-> TestTemplate("TestCompose", runtime, testType),
          TestFile |-> TestTemplate("TestFile", runtime, testType),
          TestFileName |-> TestFileNameOf(runtime)]
    ELSE NilOutput

\* filepath.Base of a slash-separated path
RECURSIVE Base(_)
Base(path) ==
    IF Contains(path, "/")
    THEN Base(SubSeq(path, Index(path, "/") + 1, Len(path)))
    ELSE path

\* filepath.Join(outputDir, "test-container", name) below the working
\* directory
TestPath(outputDir, name) ==
    (IF outputDir = "." THEN "" ELSE outputDir \o "/")
      \o "test-container/" \o name

\* writeTestOutput when every file system call works
writeTestOutput(output, outputDir, files) ==
    Put(Put(Put(files,
                TestPath(outputDir, "Dockerfile.test"), output.Dockerfile),
            TestPath(outputDir, "docker-compose.test.yml"),
            output.ComposeAdd),
        TestPath(outputDir, Base(output.TestFileName)), output.TestFile)

\* m.list.SelectedItem(): nil when the index is past the items
SelectedItem(l) ==
    IF l.index < Len(l.items) THEN l.items[l.index + 1] ELSE ""

\* the directory is taken as typed
outputDirAsTyped(value) == value

\* Update, "Output dir entered": the value of the input, "." when empty
outputDirOf(value) == IF value = "" THEN "." ELSE value

\* list.Update for a key: the cursor moves within the items
listUpdate(l, key) ==
    CASE key = "down" /\ l.index + 1 < Len(l.items) ->
           [l EXCEPT !.index = @ + 1]
      [] key = "up" /\ l.index > 0 -> [l EXCEPT !.index = @ - 1]
      [] OTHER -> l

\* textinput.Update for a key: a character is added, the last one deleted
textInputUpdate(value, key) ==
    CASE key = "backspace" /\ value # "" -> SubSeq(value, 1, Len(value) - 1)
      [] key = "t" /\ Len(value) < MaxDirLen -> value \o key
      [] OTHER -> value

\* what Update does after its switch: the message goes to the list or to the
\* text input; the list's own quit binding is esc (and q)
Delegated(m, key, quit) ==
    IF m.step < 2
    THEN [m |-> [m EXCEPT !.list = listUpdate(@, key)],
          quit |-> quit \/ key = "esc"]
    ELSE [m |-> [m EXCEPT !.textInput = textInputUpdate(@, key)],
          quit |-> quit]

\* testModel.Update for a tea.KeyMsg: the next model and whether the command
\* is tea.Quit.  SetItems keeps the index or brings it back into the items
UpdateKey(m, key) ==
    IF key \in {"ctrl+c", "q"} THEN {[m |-> m, quit |-> TRUE]}
    ELSE IF key # "enter" THEN {Delegated(m, key, FALSE)}
    ELSE IF m.step = 0
    THEN (IF SelectedItem(m.list) # ""
          THEN {Delegated(
                  [m EXCEPT !.runtime = SelectedItem(m.list),
                            !.step = 1,
                            !.list = [@ EXCEPT !.items = TestTypes,
                                               !.index = index]],
                  key, FALSE) :
                  index \in {m.list.index,
                             IF m.list.index < Len(TestTypes)
                             THEN m.list.index ELSE Len(TestTypes) - 1}}
          ELSE {Delegated(m, key, FALSE)})
    ELSE IF m.step = 1
    THEN (IF SelectedItem(m.list) # ""
          THEN {Delegated([m EXCEPT !.testType = SelectedItem(m.list),
                                    !.step = 2], key, FALSE)}
          ELSE {Delegated(m, key, FALSE)})
    ELSE {[m |-> [m EXCEPT
                    !.outputDir = outputDirOf(m.textInput),
                    !.generated =
                       generateTestOutput(m.runtime, m.testType,
                                          outputDirOf(m.textInput)),
                    !.done = TRUE],
           quit |-> TRUE]}

testIdle ==
    <<project, g, out1, out2, randFailed, configFile, selected, selectedMap,
      toggles, freedPorts>>

\* stackgen test [--runtime r]: runTest up to the start of the program, with
\* --runtime the whole command
runTest(testRuntime) ==
    /\ pc = "start"
    /\ IF testRuntime = ""
       THEN /\ pc' = "tui"
            /\ testModel' = initialTestModel
            /\ UNCHANGED <<disk, lastCmd>>
       ELSE /\ pc' = "exit"
            /\ UNCHANGED testModel
            /\ \E output \in {generateTestOutput(testRuntime, "integration",
                                                ".")} :
                 IF output = NilOutput
                 THEN /\ lastCmd' = Cmd("test", "unsupported runtime")
                      /\ UNCHANGED disk
                 ELSE \E io \in {"ok", "MkdirAll fails"} :
                        IF io = "ok"
                        THEN /\ disk' = writeTestOutput(output, ".", disk)
                             /\ lastCmd' = Cmd("test", "nil")
                        ELSE /\ lastCmd' = Cmd("test", io)
                             /\ UNCHANGED disk
    /\ UNCHANGED testIdle

\* the program hands a key to testModel.Update
Update(key) ==
    /\ pc = "tui"
    /\ \E r \in UpdateKey(testModel, key) :
         /\ testModel' = r.m
         /\ pc' = IF r.quit THEN "quit" ELSE "tui"
    /\ lastCmd' = Cmd("key " \o key, "nil")
    /\ UNCHANGED <<disk, testIdle>>

\* the program hands a tea.WindowSizeMsg to testModel.Update
UpdateWindowSize(width) ==
    /\ pc = "tui"
    /\ testModel' = [testModel EXCEPT !.list.width = width]
    /\ lastCmd' = Cmd("resize", "nil")
    /\ UNCHANGED <<pc, disk, testIdle>>

\* runTest after p.Run() returned the final model
finishTest ==
    /\ pc = "quit"
    /\ pc' = "exit"
    /\ IF testModel.generated = NilOutput
       THEN /\ lastCmd' = Cmd("test", "nil")
            /\ UNCHANGED disk
       ELSE \E io \in {"ok", "MkdirAll fails"} :
              IF io = "ok"
              THEN /\ disk' = writeTestOutput(testModel.generated,
                                              testModel.outputDir, disk)
                   /\ lastCmd' = Cmd("test", "nil")
              ELSE /\ lastCmd' = Cmd("test", io)
                   /\ UNCHANGED disk
    /\ UNCHANGED <<testModel, testIdle>>

InitTest ==
    /\ pc = "start"
    /\ project = EmptyProject
    /\ g = New(EmptyProject)
    /\ out1 = NoOutput
    /\ out2 = NoOutput
    /\ randFailed = {}
    /\ configFile = NoFile
    /\ disk = EmptyMap
    /\ lastCmd = NoCmd
    /\ selected = <<>>
    /\ selectedMap = {}
    /\ toggles = 0
    /\ freedPorts = {}
    /\ testModel = NoModel

NextTest ==
    \/ \E testRuntime \in TestRuntimeFlags : runTest(testRuntime)
    \/ \E key \in KeyMsgs : Update(key)
    \/ \E width \in Widths : UpdateWindowSize(width)
    \/ finishTest

SpecTest == InitTest /\ [][NextTest]_vars

----------------------------------------------------------------------------
(* Reading the generated documents *)

HasSuffix(s, suffix) ==
    Len(s) >= Len(suffix)
    /\ SubSeq(s, Len(s) - Len(suffix) + 1, Len(s)) = suffix

\* a KEY=VALUE line of an environment document
IsEntry(line) == line # "" /\ ~HasPrefix(line, "#") /\ Contains(line, "=")
KeyOf(line) == SubSeq(line, 1, Index(line, "=") - 1)
ValueOf(line) == SubSeq(line, Index(line, "=") + 1, Len(line))
Entries(doc) == SelectSeq(doc, IsEntry)
Keys(doc) == [i \in 1..Len(Entries(doc)) |-> KeyOf(Entries(doc)[i])]

\* the passwords the entries of an environment document give
PasswordsIn(entries) ==
    {ValueOf(entries[i]) :
       i \in {j \in 1..Len(entries) :
                HasSuffix(KeyOf(entries[j]), "_PASSWORD")}}
    \cup
    {SubSeq(ValueOf(entries[i]), Len("neo4j/") + 1, Len(ValueOf(entries[i]))) :
       i \in {j \in 1..Len(entries) : KeyOf(entries[j]) = "NEO4J_AUTH"}}

\* the service synthesized for the i-th datastore of the Project
DatastoreService(out, i) ==
    out.bundle.ComposeYAML.body.services[project.Datastores[i].Name]

\* the texts of a service in which compose substitutes variables
SubstitutedTexts(svc) ==
    {svc.Environment[k] : k \in DOMAIN svc.Environment} \cup {svc.Command}

CredentialVars ==
    {"POSTGRES_PASSWORD", "MYSQL_ROOT_PASSWORD", "MYSQL_PASSWORD",
     "MSSQL_SA_PASSWORD", "NEO4J_AUTH", "REDIS_PASSWORD",
     "REDIS_STACK_PASSWORD"}

\* the bundle built from the generator's present state
LastOutput == IF pc = "once" THEN out1 ELSE out2

----------------------------------------------------------------------------
(* Claims about the generator *)

\* C1: in the service synthesized for a datastore no credential variable is
\* referenced in the ${VAR:-default} form, whatever the kind
C1_NoCredentialFallback ==
    out1.called =>
      \A i \in 1..Len(project.Datastores) :
        \A v \in CredentialVars :
          \A t \in SubstitutedTexts(DatastoreService(out1, i)) :
            ~Contains(t, "${" \o v \o ":-")

\* C5: when a read of the random source fails during Generate, Generate
\* returns an error and no bundle
C5_RandFailureAborts ==
    (out1.called /\ 1 \in randFailed) => out1.err # "nil"

SecretKeys(envVars) ==
    {envVars[i].Key : i \in {j \in 1..Len(envVars) : envVars[j].Secret}}

\* two documents with the same lines, but for the values of secret variables
SameExceptSecrets(d1, d2, secretKeys) ==
    /\ Len(d1) = Len(d2)
    /\ \A i \in 1..Len(d1) :
         \/ d1[i] = d2[i]
         \/ /\ IsEntry(d1[i]) /\ IsEntry(d2[i])
            /\ KeyOf(d1[i]) = KeyOf(d2[i])
            /\ KeyOf(d1[i]) \in secretKeys

\* C8: two consecutive generations New(project).Generate() of the unchanged
\* Project give the same orchestration document, the same build recipes and
\* environment documents that differ only in the values of secret variables
C8_SameShapeTwice ==
    pc = "twiceFresh" =>
      /\ out1.bundle.ComposeYAML = out2.bundle.ComposeYAML
      /\ out1.bundle.Dockerfiles = out2.bundle.Dockerfiles
      /\ out1.bundle.GitIgnore = out2.bundle.GitIgnore
      /\ SameExceptSecrets(out1.bundle.EnvFile, out2.bundle.EnvFile,
                           SecretKeys(g.envVars))

C8_Witness ==
    /\ pc = "twiceFresh"
    /\ out1.bundle.EnvFile # out2.bundle.EnvFile
    /\ DOMAIN out1.bundle.Dockerfiles # {}
    /\ \E i \in 1..Len(g.envVars) : ~g.envVars[i].Secret

\* C9: a second Generate on the same Generator returns a bundle with the same
\* variables, each as often as in the first bundle, and the same build
\* recipes, and leaves the first bundle as it was
C9_GenerateFromScratch ==
    [][(pc = "once" /\ pc' = "twiceSame") =>
         /\ out1' = out1
         /\ Keys(out2'.bundle.EnvFile) = Keys(out1.bundle.EnvFile)
         /\ out2'.bundle.Dockerfiles = out1.bundle.Dockerfiles]_vars

ExpectedPlaceholder ==
    [POSTGRES_PASSWORD |-> "<your-postgres-password>",
     DATABASE_URL |-> "<your-database-url>",
     MYSQL_ROOT_PASSWORD |-> "<your-mysql-root-password>",
     MYSQL_PASSWORD |-> "<your-mysql-password>",
     MYSQL_URL |-> "<your-mysql-url>",
     MSSQL_SA_PASSWORD |-> "<your-mssql-sa-password>",
     MSSQL_URL |-> "<your-mssql-url>",
     NEO4J_AUTH |-> "<your-neo4j-auth>",
     REDIS_PASSWORD |-> "<your-redis-password>",
     REDIS_URL |-> "<your-redis-url>",
     REDIS_STACK_PASSWORD |-> "<your-redis-stack-password>",
     REDIS_STACK_URL |-> "<your-redis-stack-url>"]

\* C10: the example document has the keys of the secret document in the same
\* order, a secret variable with its placeholder and any other variable with
\* its live value; it holds no generated password and is the same for two
\* generations of a Project
C10_ExampleRedacted ==
    /\ pc # "new" =>
         \A env \in {Entries(LastOutput.bundle.EnvFile)} :
         \A ex \in {Entries(LastOutput.bundle.EnvExampleFile)} :
             /\ Len(ex) = Len(env)
             /\ Len(env) = Len(g.envVars)
             /\ \A i \in 1..Len(env) :
                  /\ KeyOf(env[i]) = g.envVars[i].Key
                  /\ KeyOf(ex[i]) = KeyOf(env[i])
                  /\ IF g.envVars[i].Secret
                     THEN ValueOf(ex[i]) = ExpectedPlaceholder[KeyOf(ex[i])]
                     ELSE ex[i] = env[i]
             /\ \A p \in PasswordsIn(env) :
                  \A j \in 1..Len(LastOutput.bundle.EnvExampleFile) :
                    ~Contains(LastOutput.bundle.EnvExampleFile[j], p)
    /\ pc = "twiceFresh" =>
         out1.bundle.EnvExampleFile = out2.bundle.EnvExampleFile

C10_Witness ==
    /\ pc = "twiceFresh"
    /\ PasswordsIn(Entries(out1.bundle.EnvFile)) # {}
    /\ PasswordsIn(Entries(out1.bundle.EnvFile))
         # PasswordsIn(Entries(out2.bundle.EnvFile))
    /\ \E i \in 1..Len(g.envVars) : ~g.envVars[i].Secret

IsInjective(l) == \A i, j \in DOMAIN l : i # j => l[i] # l[j]

\* C24: AvailableDatastores and AvailableRuntimes each list six pairwise
\* distinct kinds in the order of the source; the catalog gives every one of
\* them a non-empty display name and a positive default port, and every
\* runtime kind a non-empty framework list; the instances of a generated
\* Project carry the internal port of their kind
C24_CatalogComplete ==
    /\ AvailableDatastores =
         <<"postgres", "mysql", "mssql", "neo4j", "redis", "redis-stack">>
    /\ AvailableRuntimes =
         <<"go", "node", "python", "java", "rust", "csharp">>
    /\ Len(AvailableDatastores) = 6 /\ IsInjective(AvailableDatastores)
    /\ Len(AvailableRuntimes) = 6 /\ IsInjective(AvailableRuntimes)
    /\ \A i \in 1..Len(AvailableDatastores) :
         \A info \in {GetDatastoreInfo(AvailableDatastores[i])} :
           /\ info.Type = AvailableDatastores[i]
           /\ info.DisplayName # ""
           /\ info.DefaultPort > 0
    /\ \A i \in 1..Len(AvailableRuntimes) :
         \A info \in {GetRuntimeInfo(AvailableRuntimes[i])} :
           /\ info.Type = AvailableRuntimes[i]
           /\ info.DisplayName # ""
           /\ info.DefaultPort > 0
           /\ info.Frameworks # <<>>
    /\ \A i \in 1..Len(project.Datastores) :
         /\ project.Datastores[i].InternalPort > 0
         /\ project.Datastores[i].InternalPort
              = GetDatastoreInfo(project.Datastores[i].Type).DefaultPort
    /\ \A i \in 1..Len(project.Runtimes) :
         /\ project.Runtimes[i].InternalPort > 0
         /\ project.Runtimes[i].InternalPort
              = GetRuntimeInfo(project.Runtimes[i].Type).DefaultPort

\* the last kind of each list was looked up for a generated Project
C24_Witness ==
    /\ out1.called
    /\ Len(project.Datastores) = 1 /\ Len(project.Runtimes) = 1
    /\ project.Datastores[1].Type = AvailableDatastores[6]
    /\ project.Datastores[1].Port = 6379
    /\ project.Runtimes[1].Type = AvailableRuntimes[6]
    /\ project.Runtimes[1].Port = 5000

----------------------------------------------------------------------------
(* Claims about the add command *)

\* the Project saved in stackgen.yaml
SavedProject == yamlUnmarshalProject(configFile.data)

DatastorePorts(p) == {p.Datastores[i].Port : i \in 1..Len(p.Datastores)}

\* C3: a successful addDatastore gives the new datastore the smallest port
\* default_port + k (k >= 0) that no datastore of the Project used before the
\* call, and the external ports of the datastores of the saved Project are
\* pairwise distinct afterwards
C3_DatastorePortsDistinct ==
    [][\A dsType \in DatastoreArgs :
         (/\ lastCmd'.err = "nil"
          /\ HasPrefix(lastCmd'.op, "addDatastore")
          /\ addDatastore(dsType)) =>
           \A old \in {runAddProject} :
           \A new \in {yamlUnmarshalProject(configFile'.data)} :
             LET added == new.Datastores[Len(new.Datastores)]
                 default == GetDatastoreInfo(dsType).DefaultPort
             IN  /\ Len(new.Datastores) = Len(old.Datastores) + 1
                 /\ added.Type = dsType
                 /\ added.Port >= default
                 /\ added.Port \notin DatastorePorts(old)
                 /\ \A q \in default..(added.Port - 1) :
                      q \in DatastorePorts(old)
                 /\ \A i, j \in 1..Len(new.Datastores) :
                      i # j => new.Datastores[i].Port # new.Datastores[j].Port
      ]_vars

\* redis-stack added next to redis: the default port 6379 was taken
C3_Witness ==
    /\ lastCmd = Cmd("addDatastore", "nil")
    /\ configFile.exists
    /\ \E i, j \in 1..Len(SavedProject.Datastores) :
         /\ SavedProject.Datastores[i].Type = DatastoreRedis
         /\ SavedProject.Datastores[i].Port = 6379
         /\ SavedProject.Datastores[j].Type = DatastoreRedisStack
         /\ SavedProject.Datastores[j].Port = 6380

\* C6: addDatastore for a kind the Project already holds returns an error and
\* leaves the in-memory Project, stackgen.yaml and the generated artifacts as
\* they were before the call
C6_DuplicateAddRefused ==
    [][\A dsType \in DatastoreArgs :
         (/\ HasPrefix(lastCmd'.op, "addDatastore")
          /\ \E i \in 1..Len(runAddProject.Datastores) :
               runAddProject.Datastores[i].Type = dsType
          /\ addDatastore(dsType))
         => /\ lastCmd'.err # "nil"
            /\ project' = runAddProject
            /\ configFile' = configFile
            /\ disk' = disk
      ]_vars

\* a duplicate add was refused in a directory with a saved configuration
C6_Witness ==
    /\ lastCmd = Cmd("addDatastore", "already in the configuration")
    /\ configFile.exists
    /\ Len(SavedProject.Datastores) >= 1
    /\ project = SavedProject

\* the name of the n-th runtime of its kind in the list
NthName(kind, n) ==
    IF n = 1 THEN kind \o "-app" ELSE kind \o "-app-" \o ToString(n)

NamesByCount(p) ==
    /\ \A i \in 1..Len(p.Runtimes) :
         p.Runtimes[i].Name =
           NthName(p.Runtimes[i].Type,
                   Cardinality({j \in 1..i :
                                  p.Runtimes[j].Type = p.Runtimes[i].Type}))
    /\ \A i, j \in 1..Len(p.Runtimes) :
         i # j => p.Runtimes[i].Name # p.Runtimes[j].Name

\* C7: after any sequence of addRuntime operations the first runtime of a
\* kind is named <kind>-app, the n-th (n >= 2) <kind>-app-n, and the runtime
\* names of the Project are pairwise distinct
C7_RuntimeNamesDistinct ==
    /\ NamesByCount(project)
    /\ configFile.exists => NamesByCount(SavedProject)

\* a second runtime of a kind was added next to the first
C7_Witness ==
    /\ lastCmd = Cmd("addRuntime", "nil")
    /\ configFile.exists
    /\ \E i, j \in 1..Len(SavedProject.Runtimes) :
         /\ i < j
         /\ SavedProject.Runtimes[i].Name = "go-app"
         /\ SavedProject.Runtimes[j].Name = "go-app-2"
         /\ SavedProject.Runtimes[j].Type = RuntimeGo

\* the list l with one element appended
IsAppendOf(new, old) ==
    /\ Len(new) = Len(old) + 1
    /\ SubSeq(new, 1, Len(old)) = old

C13_DryRunWritesNothing ==
    [][HasSuffix(lastCmd'.op, " --dry-run") =>
         /\ configFile' = configFile
         /\ disk' = disk
      ]_vars

\* C14: every runtime of the Project has a framework from the framework list
\* of its kind; a runtime added when the framework prompt failed has the
\* first framework of the list
C14_FrameworkOfKind ==
    \A i \in 1..Len(project.Runtimes) :
      \E n \in 1..Len(GetRuntimeInfo(project.Runtimes[i].Type).Frameworks) :
        project.Runtimes[i].Framework =
          GetRuntimeInfo(project.Runtimes[i].Type).Frameworks[n]

\* C15: an add command that returns an error leaves stackgen.yaml and the
\* artifacts on disk as they were before the command
C15_NoPartialSuccess ==
    [][(HasPrefix(lastCmd'.op, "add") /\ lastCmd'.err # "nil") =>
         /\ configFile' = configFile
         /\ disk' = disk
      ]_vars

\* C17: a successful add command gives the new instance no port that an
\* instance deleted from the Project had
C17_FreedPortNotReassigned ==
    [][(HasPrefix(lastCmd'.op, "add") /\ lastCmd'.err = "nil") =>
         \A old \in {runAddProject} : \A new \in {project'} :
           /\ Len(new.Datastores) > Len(old.Datastores) =>
                FreedPort("datastore",
                          new.Datastores[Len(new.Datastores)].Port)
                  \notin freedPorts
           /\ Len(new.Runtimes) > Len(old.Runtimes) =>
                FreedPort("runtime", new.Runtimes[Len(new.Runtimes)].Port)
                  \notin freedPorts
      ]_vars

DistinctNames(l) ==
    \A i, j \in 1..Len(l) : i # j => l[i].Name # l[j].Name

\* C25: a successful add command run on a Project, as loaded from
\* stackgen.yaml, whose datastore names are pairwise distinct and whose
\* runtime names are pairwise distinct leaves a Project with pairwise distinct
\* datastore names and pairwise distinct runtime names
C25_AddKeepsNamesDistinct ==
    [][(HasPrefix(lastCmd'.op, "add") /\ lastCmd'.err = "nil") =>
         \A old \in {runAddProject} : \A new \in {project'} :
           (DistinctNames(old.Datastores) /\ DistinctNames(old.Runtimes)) =>
             (DistinctNames(new.Datastores) /\ DistinctNames(new.Runtimes))
      ]_vars

\* C29: every datastore and every runtime of the saved Project is of a kind
\* of the catalog, whatever types the add commands named
C29_SavedKindsInCatalog ==
    configFile.exists =>
      /\ \A i \in 1..Len(SavedProject.Datastores) :
           SavedProject.Datastores[i].Type \in Range(AvailableDatastores)
      /\ \A i \in 1..Len(SavedProject.Runtimes) :
           SavedProject.Runtimes[i].Type \in Range(AvailableRuntimes)

----------------------------------------------------------------------------
(* Claims about the init command *)

\* C2: the Project built by the init wizard has pairwise distinct datastore
\* names and pairwise distinct runtime names, whatever rows were toggled
\* before [Done]
C2_WizardNamesDistinct ==
    /\ \A i, j \in 1..Len(project.Datastores) :
         i # j => project.Datastores[i].Name # project.Datastores[j].Name
    /\ \A i, j \in 1..Len(project.Runtimes) :
         i # j => project.Runtimes[i].Name # project.Runtimes[j].Name

\* C4: the runtimes of the Project built by a profile or by the init wizard
\* (the i-th gets default_port + i*1000) have pairwise distinct external
\* ports
C4_RuntimePortsDistinct ==
    \A i, j \in 1..Len(project.Runtimes) :
      i # j => project.Runtimes[i].Port # project.Runtimes[j].Port

\* C16: the datastores of the Project built by the init wizard have pairwise
\* distinct external ports, also when two selected kinds have the same
\* catalog port
C16_WizardDatastorePortsDistinct ==
    \A i, j \in 1..Len(project.Datastores) :
      (i # j /\ project.Datastores[i].Type # project.Datastores[j].Type)
        => project.Datastores[i].Port # project.Datastores[j].Port

\* C18: every runtime of a Project materialized from a built-in profile
\* depends on the names of all datastores of the Project, in their order;
\* the service generated for it carries that list and each name in it is a
\* service of the orchestration document
C18_ProfileDependsOn ==
    (out1.called /\ project.Profile # "") =>
      \A services \in {out1.bundle.ComposeYAML.body.services} :
      \A i \in 1..Len(project.Runtimes) :
        LET rt == project.Runtimes[i]
        IN  /\ rt.DependsOn =
                 [n \in 1..Len(project.Datastores) |->
                    project.Datastores[n].Name]
            /\ rt.Name \in DOMAIN services
            /\ services[rt.Name].DependsOn = rt.DependsOn
            /\ \A n \in 1..Len(rt.DependsOn) :
                 rt.DependsOn[n] \in DOMAIN services

\* the profile with three datastores and two runtimes was generated
C18_Witness ==
    /\ out1.called
    /\ project.Profile = "fullstack"
    /\ Len(project.Runtimes) = 2
    /\ Len(project.Runtimes[2].DependsOn) = 3
    /\ project.Runtimes[2].DependsOn[3] = DatastoreNeo4j

\* C23: GetProfile gives the built-in profile of the requested name when
\* there is one and nil when there is none; init --profile with a name of no
\* built-in profile returns an error, generates nothing and writes nothing,
\* and with the name of a built-in profile it materializes that profile
C23_UnknownProfileRejected ==
    [][\A profileName \in ProfileNames \ {""} :
         runInit(profileName) =>
           IF \E i \in 1..Len(AvailableProfiles) :
                AvailableProfiles[i].Name = profileName
           THEN /\ GetProfile(profileName) # NilProfile
                /\ GetProfile(profileName).Name = profileName
                /\ project'.Profile = profileName
           ELSE /\ GetProfile(profileName) = NilProfile
                /\ lastCmd'.err # "nil"
                /\ out1' = out1
                /\ g' = g
                /\ project' = project
                /\ disk' = disk
                /\ configFile' = configFile]_vars

\* init --profile nosuch has returned its error, nothing was generated and
\* the output directory is as it was
C23_Witness ==
    /\ pc = "done"
    /\ lastCmd = Cmd("init", "unknown profile")
    /\ out1 = NoOutput
    /\ disk = EmptyMap
    /\ project = EmptyProject

----------------------------------------------------------------------------
(* Claims about the generated documents *)

\* the kinds whose variables include a connection string with a password
PasswordUrlKinds ==
    {DatastorePostgres, DatastoreMySQL, DatastoreMSSQL, DatastoreRedis,
     DatastoreRedisStack}

ConnectionKey(kind) ==
    CASE kind = DatastorePostgres -> "DATABASE_URL"
      [] kind = DatastoreMySQL -> "MYSQL_URL"
      [] kind = DatastoreMSSQL -> "MSSQL_URL"
      [] kind = DatastoreRedis -> "REDIS_URL"
      [] kind = DatastoreRedisStack -> "REDIS_STACK_URL"

PasswordKey(kind) ==
    CASE kind = DatastorePostgres -> "POSTGRES_PASSWORD"
      [] kind = DatastoreMySQL -> "MYSQL_PASSWORD"
      [] kind = DatastoreMSSQL -> "MSSQL_SA_PASSWORD"
      [] kind = DatastoreRedis -> "REDIS_PASSWORD"
      [] kind = DatastoreRedisStack -> "REDIS_STACK_PASSWORD"

\* the values the entries of a document give to a key
ValuesOf(entries, key) ==
    {ValueOf(entries[j]) :
       j \in {n \in 1..Len(entries) : KeyOf(entries[n]) = key}}

\* C11: for every datastore of kind postgres, mysql, mssql, redis or
\* redis-stack the environment document holds the kind's connection-string
\* variable; the password in its value is the value of the kind's password
\* variable in the same document (MYSQL_PASSWORD for mysql), the host is the
\* instance name and the port the kind's catalog port
C11_ConnectionStringPassword ==
    out1.called =>
      \A entries \in {Entries(out1.bundle.EnvFile)} :
      \A i \in 1..Len(project.Datastores) :
        LET ds == project.Datastores[i]
            port == Itoa(GetDatastoreInfo(ds.Type).DefaultPort)
        IN  ds.Type \in PasswordUrlKinds =>
              \A urls \in {ValuesOf(entries, ConnectionKey(ds.Type))} :
              \A pws \in {ValuesOf(entries, PasswordKey(ds.Type))} :
              /\ Cardinality(urls) = 1
              /\ Cardinality(pws) = 1
              /\ \A url \in urls :
                 \A pw \in pws :
                   /\ pw # ""
                   /\ IF ds.Type = DatastoreMSSQL
                      THEN /\ Contains(url, "Server=" \o ds.Name \o ","
                                              \o port \o ";")
                           /\ Contains(url, "Password=" \o pw \o ";")
                      ELSE Contains(url, ":" \o pw \o "@" \o ds.Name \o ":"
                                           \o port)

\* a mysql datastore was generated, its root and application passwords differ
C11_Witness ==
    /\ out1.called
    /\ \E i \in 1..Len(project.Datastores) :
         project.Datastores[i].Type = DatastoreMySQL
    /\ \A entries \in {Entries(out1.bundle.EnvFile)} :
         /\ ValuesOf(entries, "MYSQL_URL") # {}
         /\ ValuesOf(entries, "MYSQL_ROOT_PASSWORD")
              # ValuesOf(entries, "MYSQL_PASSWORD")

\* the volume a service mounts under  source:target ; a source that is a
\* path (./app) is a bind mount and names no volume
IsNamedVolume(mount) == ~HasPrefix(mount, ".") /\ ~HasPrefix(mount, "/")
VolumeOf(mount) == SubSeq(mount, 1, Index(mount, ":") - 1)

DistinctDatastoreNames(p) ==
    \A i, j \in 1..Len(p.Datastores) :
      i # j => p.Datastores[i].Name # p.Datastores[j].Name

\* C19: for a Project with pairwise distinct datastore names the volumes of
\* the orchestration document are <name>-data for every datastore and
\* <name>-logs for every neo4j datastore and no other, and every named volume
\* a service mounts is one of them
C19_VolumesDeclared ==
    (pc # "new" /\ DistinctDatastoreNames(project)) =>
      \A body \in {LastOutput.bundle.ComposeYAML.body} :
        /\ DOMAIN body.volumes =
             {project.Datastores[i].Name \o "-data" :
                i \in 1..Len(project.Datastores)}
             \cup
             {project.Datastores[i].Name \o "-logs" :
                i \in {n \in 1..Len(project.Datastores) :
                         project.Datastores[n].Type = DatastoreNeo4j}}
        /\ \A name \in DOMAIN body.services :
             \A n \in 1..Len(body.services[name].Volumes) :
               IsNamedVolume(body.services[name].Volumes[n]) =>
                 VolumeOf(body.services[name].Volumes[n])
                   \in DOMAIN body.volumes

\* a neo4j datastore was generated next to another datastore and a runtime
C19_Witness ==
    /\ pc # "new"
    /\ Len(project.Datastores) >= 2
    /\ Len(project.Runtimes) >= 1
    /\ \E i \in 1..Len(project.Datastores) :
         /\ project.Datastores[i].Type = DatastoreNeo4j
         /\ "neo4j-logs:/logs"
              \in Range(DatastoreService(LastOutput, i).Volumes)
    /\ "neo4j-logs" \in DOMAIN LastOutput.bundle.ComposeYAML.body.volumes

UpperLetters == "ABCDEFGHIJKLMNOPQRSTUVWXYZ"
LowerLetters == "abcdefghijklmnopqrstuvwxyz"
Digits == "0123456789"
Symbols == "!@#$%"

CharsOf(s) == {Char(s, i) : i \in 1..Len(s)}

\* C20: whatever the random source delivers, a failed read included, the
\* password generateStrongPassword(16) gives the SQL Server service has 16
\* characters, all of the policy alphabet, with an uppercase letter, a
\* lowercase letter, a digit and a symbol of !@#$% among them; every value a
\* byte of the source can take selects a character of the alphabet
C20_StrongPasswordPolicy ==
    (out1.called /\ \E i \in 1..Len(project.Datastores) :
                      project.Datastores[i].Type = DatastoreMSSQL) =>
      \A alphabet \in {CharsOf(StrongChars)} :
      \A passwords \in {ValuesOf(Entries(out1.bundle.EnvFile),
                                 "MSSQL_SA_PASSWORD")} :
        /\ passwords # {}
        /\ \A pw \in passwords :
             /\ Len(pw) = 16
             /\ CharsOf(pw) \subseteq alphabet
             /\ CharsOf(pw) \cap CharsOf(UpperLetters) # {}
             /\ CharsOf(pw) \cap CharsOf(LowerLetters) # {}
             /\ CharsOf(pw) \cap CharsOf(Digits) # {}
             /\ CharsOf(pw) \cap CharsOf(Symbols) # {}
        /\ \A b \in 0..255 : StrongTail(<<b>>, 1) \in alphabet

\* the read that feeds the password failed: the twelve drawn characters are
\* all the first of the alphabet
C20_Witness ==
    /\ out1.called
    /\ \E i \in 1..Len(project.Datastores) :
         project.Datastores[i].Type = DatastoreMSSQL
    /\ "A" \o "a" \o "1" \o "!" \o "aaaaaaaaaaaa"
         \in ValuesOf(Entries(out1.bundle.EnvFile), "MSSQL_SA_PASSWORD")

\* C21: whatever version tag the Project requests, the image of a generated
\* neo4j service is neo4j:<tag>-community, so it ends with -community, and
\* the catalog edition of the neo4j kind is Community Edition
C21_Neo4jCommunityImage ==
    /\ GetDatastoreInfo(DatastoreNeo4j).Edition = "Community Edition"
    /\ out1.called =>
         \A i \in 1..Len(project.Datastores) :
           project.Datastores[i].Type = DatastoreNeo4j =>
             /\ DatastoreService(out1, i).Image
                  = "neo4j:" \o project.Datastores[i].Tag \o "-community"
             /\ HasSuffix(DatastoreService(out1, i).Image, "-community")

\* a neo4j service was generated for a tag that is not the default one
C21_Witness ==
    /\ out1.called
    /\ \E i \in 1..Len(project.Datastores) :
         /\ project.Datastores[i].Type = DatastoreNeo4j
         /\ project.Datastores[i].Tag = "5.26-enterprise"
         /\ DatastoreService(out1, i).Image = "neo4j:5.26-enterprise-community"

\* C22: the environment of every generated mssql service holds ACCEPT_EULA
\* with the value Y and MSSQL_PID with the value Developer, literal values in
\* which no variable is substituted, and the catalog edition of the mssql
\* kind is Developer Edition - for development use only
C22_MSSQLFixedEnvironment ==
    /\ GetDatastoreInfo(DatastoreMSSQL).Edition
         = "Developer Edition - for development use only"
    /\ out1.called =>
         \A i \in 1..Len(project.Datastores) :
           project.Datastores[i].Type = DatastoreMSSQL =>
             \A env \in {DatastoreService(out1, i).Environment} :
               /\ {"ACCEPT_EULA", "MSSQL_PID"} \subseteq DOMAIN env
               /\ env["ACCEPT_EULA"] = "Y"
               /\ env["MSSQL_PID"] = "Developer"
               /\ ~Contains(env["ACCEPT_EULA"], "$")
               /\ ~Contains(env["MSSQL_PID"], "$")

\* an mssql service was generated next to another service; its password is
\* the one value of its environment that is read from a variable
C22_Witness ==
    /\ out1.called
    /\ Len(project.Datastores) + Len(project.Runtimes) >= 2
    /\ \E i \in 1..Len(project.Datastores) :
         /\ project.Datastores[i].Type = DatastoreMSSQL
         /\ DatastoreService(out1, i).Environment["ACCEPT_EULA"] = "Y"
         /\ Contains(DatastoreService(out1, i).Environment["MSSQL_SA_PASSWORD"],
                     "$")

\* C26: for a Project with pairwise distinct datastore names and pairwise
\* distinct runtime names the orchestration document holds one service for
\* every datastore and one for every runtime: as many services as instances,
\* under the instances' names
C26_OneServicePerInstance ==
    (/\ pc # "new"
     /\ DistinctNames(project.Datastores)
     /\ DistinctNames(project.Runtimes)) =>
      \A services \in {LastOutput.bundle.ComposeYAML.body.services} :
        /\ Cardinality(DOMAIN services)
             = Len(project.Datastores) + Len(project.Runtimes)
        /\ \A i \in 1..Len(project.Datastores) :
             project.Datastores[i].Name \in DOMAIN services
        /\ \A i \in 1..Len(project.Runtimes) :
             project.Runtimes[i].Name \in DOMAIN services

\* the host port of a published  host:container  port
HostPort(mapping) == SubSeq(mapping, 1, Index(mapping, ":") - 1)

\* the published ports of a document as (service, position) pairs
Published(services) ==
    {<<name, n>> : name \in DOMAIN services, n \in 1..2} \cap
    UNION {{<<name, n>> : n \in 1..Len(services[name].Ports)} :
             name \in DOMAIN services}

\* C27: in the orchestration document generated for a Project that add
\* commands built from the empty Project, no two published ports have the
\* same host port; the ports of the runtimes, the primary ports of the
\* datastores, the Bolt port of neo4j (port + 213) and the UI port of
\* redis-stack (port + 1622) all count
C27_HostPortsDistinct ==
    (pc # "new" /\ project.Profile = "") =>
      \A services \in {LastOutput.bundle.ComposeYAML.body.services} :
        /\ \A a, b \in Published(services) :
             a # b => HostPort(services[a[1]].Ports[a[2]])
                        # HostPort(services[b[1]].Ports[b[2]])
        /\ \A i \in 1..Len(project.Datastores) :
             \A ds \in {project.Datastores[i]} :
               /\ ds.Type = DatastoreNeo4j =>
                    Itoa(ds.Port + 213) \o ":7687"
                      \in Range(services[ds.Name].Ports)
               /\ ds.Type = DatastoreRedisStack =>
                    Itoa(ds.Port + 1622) \o ":8001"
                      \in Range(services[ds.Name].Ports)

\* add datastore neo4j and add runtime go built the Project: the document
\* publishes 7474, 7687 and 8080
C27_Witness ==
    /\ pc # "new"
    /\ project.Profile = ""
    /\ Len(project.Datastores) = 1 /\ Len(project.Runtimes) = 1
    /\ project.Datastores[1].Type = DatastoreNeo4j
    /\ \A services \in {LastOutput.bundle.ComposeYAML.body.services} :
         {HostPort(services[a[1]].Ports[a[2]]) : a \in Published(services)}
           = {"7474", "7687", "8080"}

\* C28: in the secret environment document and in the example document of
\* the first generation for a Project, built from a profile or by add
\* commands, no variable key occurs twice
C28_EnvKeysUnique ==
    pc = "once" =>
      /\ IsInjective(Keys(out1.bundle.EnvFile))
      /\ IsInjective(Keys(out1.bundle.EnvExampleFile))

----------------------------------------------------------------------------
(* Claims about the test command *)

QuitKeys == {"q", "ctrl+c"}

\* C30: in the wizard the step goes from 0 to 1 to 2, one at a time, on
\* enter only, and never back; the scaffolding is generated by enter at step
\* 2 only, for the runtime and the test type chosen before, one of the six
\* and one of the three, and for the typed directory or "." when none was
\* typed; q and ctrl+c end the wizard at every step with nothing generated,
\* and then nothing is written; at step 2 no key but enter, q and ctrl+c
\* ends the wizard
C30_TestWizardSteps ==
    [][/\ \A key \in KeyMsgs :
            (Update(key) /\ lastCmd'.op = "key " \o key) =>
              /\ testModel'.step \in {testModel.step, testModel.step + 1}
              /\ testModel'.step \in {0, 1, 2}
              /\ testModel'.step # testModel.step => key = "enter"
              /\ testModel'.generated # testModel.generated =>
                   /\ key = "enter" /\ testModel.step = 2
                   /\ testModel.runtime \in Range(TestRuntimes)
                   /\ testModel.testType \in Range(TestTypes)
                   /\ testModel'.outputDir =
                        (IF testModel.textInput = "" THEN "."
                         ELSE testModel.textInput)
                   /\ testModel'.generated # NilOutput
                   /\ testModel'.generated =
                        generateTestOutput(testModel.runtime,
                                           testModel.testType,
                                           testModel'.outputDir)
                   /\ pc' = "quit"
              /\ key \in QuitKeys =>
                   /\ pc' = "quit"
                   /\ testModel' = testModel
                   /\ disk' = disk
              /\ (testModel.step = 2 /\ key \notin QuitKeys \cup {"enter"})
                   => pc' = "tui"
       /\ (pc \in {"tui", "quit"} /\ disk' # disk) =>
            /\ testModel.done
            /\ testModel.generated # NilOutput
            /\ testModel.step = 2
      ]_vars

\* enter was pressed three times with nothing typed: the scaffolding of the
\* first runtime and the first test type is written below the working
\* directory
C30_Witness ==
    /\ pc = "exit"
    /\ testModel # NoModel
    /\ testModel.done
    /\ testModel.step = 2
    /\ testModel.textInput = ""
    /\ testModel.outputDir = "."
    /\ testModel.runtime = "go" /\ testModel.testType = "unit"
    /\ DOMAIN disk = {"test-container/Dockerfile.test",
                      "test-container/docker-compose.test.yml",
                      "test-container/main_test.go"}

====
